---- MODULE Spec2Model ----
(***************************************************************************)
(* Multi-provider text-generation access layer of CreateSlide.             *)
(*                                                                         *)
(* The model follows one request through the services layer:               *)
(*   resolve_provider_keys  (app/providers/registry.py)                    *)
(*   LLMProvider.generate   (app/providers/base.py, credential rotation)   *)
(*   LLMProvider._retry_loop / _smart_wait / _check_cancel                 *)
(* together with the environment of the call: the adapter (_call_model),   *)
(* the clock, and the CancelToken the UI thread may set at any moment.     *)
(*                                                                         *)
(* A string is a sequence of tokens; the token " " is a whitespace         *)
(* character, every other token is a run of non-blank characters.          *)
(* Time is counted in ticks of 0.5 s, the sleep step of _smart_wait.       *)
(***************************************************************************)
EXTENDS Integers, Sequences, FiniteSets, TLC

\* ---------------------------------------------------------------- bounds
TotalCycles == 2          \* settings.ai_retry_cycles of the run
MinDelay == 4             \* _min_retry_delay() of the provider, in ticks
MaxCallTicks == 1         \* longest duration of one adapter call, in ticks
MaxRawKeys == 3           \* longest api_keys list handed to the service
MaxFragments == 2         \* most text fragments in one error message
MaxRegistrations == 2     \* register_provider calls in one behaviour
MaxReviewCalls == 3       \* invocations of the review in one behaviour
MaxPools == 3             \* thread pools constructed in one behaviour

\* ------------------------------------------------------ program constants
SleepStep == 1            \* step = 0.5 s in _smart_wait: one tick
CyclePause == 2           \* time.sleep(1) between two cycles: two ticks

\* ------------------------------------------------------------ input sets
ModelLists == {<<"a">>, <<"a", "b">>}
ModelSet == {"a", "b"}
Providers == {"gemini", "ollama"}
RawKeyStrings == {<<"k">>, <<"j">>, <<" ", "k">>, <<" ">>}
EnvKeyStrings == {<<>>, <<"e">>}
Texts == {<<>>, <<" ">>, <<"hello">>, <<" ", "ok", " ">>}
OllamaBaseUrl == <<"http://localhost:11434/v1">>

\* --------------------------------------------------------- str helpers
RECURSIVE LStrip(_)
LStrip(s) == IF s # <<>> /\ Head(s) = " " THEN LStrip(Tail(s)) ELSE s

RECURSIVE RStrip(_)
RStrip(s) ==
    IF s # <<>> /\ s[Len(s)] = " " THEN RStrip(SubSeq(s, 1, Len(s) - 1)) ELSE s

Strip(s) == RStrip(LStrip(s))

\* Python truthiness of a str: the empty string is falsy
Truthy(s) == s # <<>>

\* ------------------------------------------------------ list helpers
RECURSIVE StripAndFilter(_)
\* [k.strip() for k in api_keys if k.strip()]
StripAndFilter(ks) ==
    IF ks = <<>> THEN <<>>
    ELSE IF Truthy(Strip(Head(ks)))
         THEN <<Strip(Head(ks))>> \o StripAndFilter(Tail(ks))
         ELSE StripAndFilter(Tail(ks))

SeqToSet(s) == {s[i] : i \in 1..Len(s)}

RECURSIVE DedupFrom(_, _)
\* the loop "for k in keys_to_use: if k not in seen: unique.append(k); seen.add(k)"
DedupFrom(ks, seen) ==
    IF ks = <<>> THEN <<>>
    ELSE IF Head(ks) \in seen
         THEN DedupFrom(Tail(ks), seen)
         ELSE <<Head(ks)>> \o DedupFrom(Tail(ks), seen \cup {Head(ks)})

\* variant of Dedup: the list is returned as it is
DedupNone(ks) == ks

Dedup(ks) == DedupFrom(ks, {})

\* keys_to_use of resolve_provider_keys, before the emptiness test
KeysToUse(prov, key, ks, envKey) ==
    IF ks # <<>> THEN StripAndFilter(ks)
    ELSE IF Truthy(key) THEN <<Strip(key)>>
    ELSE IF prov = "ollama" THEN <<OllamaBaseUrl>>
    ELSE IF Truthy(envKey) THEN <<envKey>>
    ELSE <<>>

\* resolve_provider_keys: ok = FALSE stands for the ValueError "Thieu ... API Key"
resolve_provider_keys(prov, key, ks, envKey) ==
    LET use == KeysToUse(prov, key, ks, envKey)
    IN  IF use = <<>> THEN [ok |-> FALSE, keys |-> <<>>]
        ELSE [ok |-> TRUE, keys |-> Dedup(use)]

\* _resolve_env_keys of the adapter: [key] if key else [] (Ollama: [base_url])
ResolveEnvKeys(prov, envKey) ==
    IF prov = "ollama" THEN <<OllamaBaseUrl>>
    ELSE IF Truthy(envKey) THEN <<envKey>> ELSE <<>>

\* ---------------------------------------------------------------- values
NoError == [kind |-> "None", model |-> "-"]
ModelError(k, m) == [kind |-> k, model |-> m]

\* the exceptions that leave _retry_loop
Cancelled == [type |-> "Cancelled", kind |-> "-", model |-> "-"]
AbortExc(m) == [type |-> "Abort", kind |-> "Abort", model |-> m]
AllModelsFailed(e) == [type |-> "AllModelsFailed", kind |-> e.kind, model |-> e.model]
NoExc == [type |-> "None", kind |-> "-", model |-> "-"]

Pending == [status |-> "pending", text |-> <<>>, model |-> "-", error |-> "-", cause |-> NoExc]
OkResult(t, m) == [status |-> "ok", text |-> t, model |-> m, error |-> "-", cause |-> NoExc]
ErrResult(e, c) == [status |-> "error", text |-> <<>>, model |-> "-", error |-> e, cause |-> c]

NoOk == [idx |-> 0, model |-> "-", text |-> <<>>]

RECURSIVE RawLists(_)
RawLists(n) ==
    IF n = 0 THEN {<<>>}
    ELSE RawLists(n - 1) \cup
         {Append(l, k) : l \in {x \in RawLists(n - 1) : Len(x) = n - 1}, k \in RawKeyStrings}

\* ------------------------------------------------------------------ state
VARIABLES
    path,               \* "service": through the services layer; "direct": provider.generate()
    provider,           \* provider kind of the request
    raw_api_key,        \* api_key argument of the service ("" once generate() runs)
    raw_api_keys,       \* api_keys argument of the service ([] once generate() runs)
    envKey,             \* the provider's credential in the environment ("" when unset)
    models,             \* the model list of the call
    api_keys,           \* self.api_keys of the provider object
    keys,               \* generate(): keys
    idx,                \* generate(): position in keys (1-based), 0 before the loop
    last_exc,           \* generate(): last_exc
    result,             \* what the request finally returns or raises
    cycle,              \* _retry_loop: cycle
    mi,                 \* _retry_loop: position in models of the inner for loop
    permanently_failed, \* _retry_loop: permanently_failed
    model_last_used,    \* _retry_loop: model_last_used (0 = no entry)
    last_error,         \* _retry_loop: last_error
    wait,               \* _smart_wait: wait
    waited,             \* _smart_wait: waited
    pc,                 \* control position of the request
    now,                \* time.time(), counted from the entry of the current _retry_loop
    cancelled,          \* CancelToken._event of the request
    attempts,           \* history: _call_model calls per model in the current run
    seen,               \* history: (model, outcome) of the calls of the current run
    runs,               \* history: credentials handed to _retry_loop, in order
    prevCalls,          \* history: _call_model calls made by the earlier runs
    permEver,           \* history: models classified Permanent by an earlier run
    prevOnlySkip,       \* history: every call of every earlier run raised Skip
    abortedKeys,        \* history: credential positions whose run met an Abort
    dropped,            \* history: entries of the service's list removed as duplicates
    lastOutcome,        \* history: outcome of the latest _call_model call
    okAt,               \* history: the first non-blank return of _call_model
    cancelObserved,     \* history: the probe returned true at a check point
    cancelInSleep,      \* history: the token was set during the sleep in progress
    lastModel,          \* history: model of the latest _call_model call of the run
    lastRaised,         \* history: error of the latest call of the run that raised
    cancelAtEntry,      \* history: the token was set when generate() was entered
    call_pc,            \* two calls on one provider: control position of each call
    call_cycle,         \* two calls: cycle of each call's _retry_loop
    call_mi,            \* two calls: position in models of each call's inner loop
    frame_failed,       \* two calls: permanently_failed of each _retry_loop frame
    frame_last,         \* two calls: model_last_used of each _retry_loop frame
    clock,              \* two calls: time.time(), shared by the threads
    call_perm,          \* history: models each call has classified Permanent
    call_stamped,       \* history: models each call has time-stamped
    cls_pc,             \* classification: control position of the failed adapter call
    cls_adapter,        \* classification: the adapter whose call failed
    cls_msg,            \* classification: str(exc), as the set of its text fragments
    cls_kind,           \* classification: what reaches the except clauses of _retry_loop
    cls_disp,           \* classification: what the except clauses do with it
    _PROVIDERS,         \* registry: the name -> class table of registry.py
    reg_pc,             \* registry: the last operation called on it
    reg_name,           \* registry: the name argument of the last register/get
    reg_cls,            \* registry: the class argument of the last register
    reg_out,            \* registry: what the last get_provider returned or raised
    reg_list,           \* registry: what the last list_providers returned
    reg_given,          \* history: the names register_provider was called with
    _active_token,      \* tokens: the module global of handlers.py (the request whose token it holds)
    token_set,          \* tokens: CancelToken.is_set() of each request's token
    req_pc,             \* tokens: position of each request's handler coroutine
    worker_running,     \* tokens: whether each request's service call is running in its worker
    cancel_requested,   \* tokens: State.cancel_requested of each session
    _cancel_flag,       \* tokens: the legacy global flag of cancellation.py
    last_confirm,       \* history: the session whose confirm_cancel was the last step (0: none)
    rv_pc,              \* review: position inside review_book_syntopic, or how it ended
    resume_data,        \* review: State.resume_data, the session's checkpoint
    rv_given,           \* review: the resume_state dict the caller passed
    rv_state,           \* review: the local dict 'state'
    rv_resumed,         \* review: whether the call came from resume_review
    rv_calls,           \* history: provider calls made by this invocation
    rv_step,            \* review: the step named by the PartialCompletionError
    partial_data,       \* review: PartialCompletionError.partial_data as raised
    rv_tries,           \* history: invocations of the review so far
    rv_called,          \* history: the steps this invocation made a provider call for
    _executor,          \* executor: the module global of executor.py (NoPool: None)
    pool_shutdown,      \* executor: the pools whose _shutdown flag is set
    pools_made,         \* executor: how many pools have been constructed
    ex_pc,              \* executor: position of each thread inside the two functions
    ex_ret,             \* executor: what each thread's last get_executor() returned
    ex_made,            \* history: pools constructed since the last shutdown call
    ex_got,             \* history: values returned by the calls made since then
    ex_straddle         \* history: calls that were in progress when shutdown was called

inputs == <<path, provider, raw_api_key, raw_api_keys, envKey, models>>
genLocals == <<keys, idx, last_exc, result>>
retryLocals == <<cycle, mi, permanently_failed, model_last_used, last_error, wait, waited>>
runHistory == <<attempts, seen, lastOutcome, lastModel, lastRaised>>
callHistory == <<runs, prevCalls, permEver, prevOnlySkip>>
history == <<runHistory, callHistory, abortedKeys, dropped, okAt, cancelObserved,
             cancelInSleep, cancelAtEntry>>
engineVars == <<inputs, api_keys, genLocals, retryLocals, pc, now, cancelled, history>>
callVars == <<call_pc, call_cycle, call_mi, frame_failed, frame_last, clock, call_perm,
              call_stamped>>
classVars == <<cls_pc, cls_adapter, cls_msg, cls_kind, cls_disp>>
regVars == <<_PROVIDERS, reg_pc, reg_name, reg_cls, reg_out, reg_list, reg_given>>
tokVars == <<_active_token, token_set, req_pc, worker_running, cancel_requested,
             _cancel_flag, last_confirm>>
revVars == <<rv_pc, resume_data, rv_given, rv_state, rv_resumed, rv_calls, rv_step,
             partial_data, rv_tries, rv_called>>
exeVars == <<_executor, pool_shutdown, pools_made, ex_pc, ex_ret, ex_made, ex_got,
             ex_straddle>>
auxVars == <<regVars, tokVars, revVars, exeVars>>
notExeVars == <<engineVars, callVars, classVars, regVars, tokVars, revVars>>
notRegVars == <<engineVars, callVars, classVars, tokVars, revVars, exeVars>>
notTokVars == <<engineVars, callVars, classVars, regVars, revVars, exeVars>>
notRevVars == <<engineVars, callVars, classVars, regVars, tokVars, exeVars>>
vars == <<engineVars, callVars, classVars, auxVars>>

\* the two calls of the two-call model
Calls == {1, 2}

\* no second call is in progress
CallsIdle ==
    /\ call_pc = [c \in Calls |-> "idle"]
    /\ call_cycle = [c \in Calls |-> 0]
    /\ call_mi = [c \in Calls |-> 0]
    /\ frame_failed = [f \in Calls |-> {}]
    /\ frame_last = [f \in Calls |-> [m \in ModelSet |-> 0]]
    /\ clock = 1
    /\ call_perm = [c \in Calls |-> {}]
    /\ call_stamped = [c \in Calls |-> {}]

\* no adapter error is being classified
ClassifyIdle ==
    /\ cls_pc = "idle"
    /\ cls_adapter = "gemini"
    /\ cls_msg = {}
    /\ cls_kind = "-"
    /\ cls_disp = "-"

\* --------------------------------------------------------- provider registry
\* A provider name is a string; what the registry does with it depends only on
\* its letters, on whether it holds upper-case letters and on whether it is
\* surrounded by whitespace.
NameBases == {"gemini", "openai", "ollama", "anthropic", "litellm", "dummy", "nonexistent"}
Names == [base : NameBases, upper : BOOLEAN, pad : BOOLEAN]
Plain(b) == [base |-> b, upper |-> FALSE, pad |-> FALSE]

\* str.lower() and str.strip() on a name
LowerName(n) == [n EXCEPT !.upper = FALSE]
StripName(n) == [n EXCEPT !.pad = FALSE]

\* the order of sorted() on lower-case names: a leading blank sorts before
\* every letter, then the letters decide
BaseRank(b) ==
    CASE b = "anthropic" -> 1
      [] b = "dummy" -> 2
      [] b = "gemini" -> 3
      [] b = "litellm" -> 4
      [] b = "nonexistent" -> 5
      [] b = "ollama" -> 6
      [] b = "openai" -> 7
NameRank(n) == (IF n.pad THEN 0 ELSE 7) + BaseRank(n.base)

RECURSIVE Sorted(_)
Sorted(S) ==
    IF S = {} THEN <<>>
    ELSE LET first == CHOOSE n \in S : \A o \in S : NameRank(n) <= NameRank(o)
         IN  <<first>> \o Sorted(S \ {first})

\* the module-level table _PROVIDERS as the import of registry.py leaves it
StaticProviders ==
    [n \in {Plain("gemini"), Plain("openai"), Plain("ollama")} |->
        CASE n.base = "gemini" -> "GeminiProvider"
          [] n.base = "openai" -> "OpenAIProvider"
          [] n.base = "ollama" -> "OllamaProvider"]

\* classes a caller registers at run time
CustomClasses == {"DummyProvider", "LiteLLMProvider"}
\* names a caller registers them under
CustomNames == {n \in Names : n.base \in {"dummy", "ollama"}}

\* _PROVIDERS[name.lower()] = cls
register_provider(tbl, name, cls) ==
    [k \in DOMAIN tbl \cup {LowerName(name)} |->
        IF k = LowerName(name) THEN cls ELSE tbl[k]]

\* key = name.lower().strip(); cls = _PROVIDERS.get(key); the instance is
\* represented by its class
get_provider(tbl, name) ==
    LET key == StripName(LowerName(name))
    IN  IF key \in DOMAIN tbl
        THEN [status |-> "ok", cls |-> tbl[key], error |-> "-"]
        ELSE [status |-> "error", cls |-> "-", error |-> "UnknownProvider"]

list_providers(tbl) == Sorted(DOMAIN tbl)

\* AppConfig._validate_provider: the values default_provider may hold
AllowedProviders == {"auto", "gemini", "openai", "ollama", "anthropic", "litellm"}

\* AppConfig.detect_provider; the four credentials count as set or unset
detect_provider(default_provider, ollama_base_url, google_api_key, anthropic_api_key, openai_api_key) ==
    IF default_provider # "auto" THEN default_provider
    ELSE IF ollama_base_url THEN "ollama"
    ELSE IF google_api_key THEN "gemini"
    ELSE IF anthropic_api_key THEN "anthropic"
    ELSE IF openai_api_key THEN "openai"
    ELSE "ollama"

NoLookup == [status |-> "-", cls |-> "-", error |-> "-"]

\* the registry as imported, nothing asked of it yet
RegistryIdle ==
    /\ _PROVIDERS = StaticProviders
    /\ reg_pc = "idle"
    /\ reg_name = Plain("gemini")
    /\ reg_cls = "-"
    /\ reg_out = NoLookup
    /\ reg_list = <<>>
    /\ reg_given = {}

\* ------------------------------------------------- cancel tokens of the UI
\* the two browser sessions with a generation request each; a request's
\* CancelToken is identified by the request that created it
Requests == {1, 2}
NoToken == 0

\* no request has been started
TokensIdle ==
    /\ _active_token = NoToken
    /\ token_set = [r \in Requests |-> FALSE]
    /\ req_pc = [r \in Requests |-> "idle"]
    /\ worker_running = [r \in Requests |-> FALSE]
    /\ cancel_requested = [r \in Requests |-> FALSE]
    /\ _cancel_flag = FALSE
    /\ last_confirm = 0

\* ------------------------------------------------- three-step book review
\* what robust_json_parse makes of the Librarian's answer: a non-empty dict,
\* the empty dict, a non-empty list, or None (the JSON text null)
LibParsed == {"L1", "L2", "{}", "[1]", "None"}
\* the dict used when the answer cannot be parsed
LibDefault == "Ldef"
LibValues == LibParsed \cup {LibDefault}
\* the Analyst's text as generate() returns it: stripped and not empty
AnalystTexts == {"A1", "A2"}
ModelNames == {"m", "n"}
Absent == "absent"

\* bool(value) of a checkpoint value, None when the key is absent
TruthyValue(v) == v \notin {Absent, "{}", "None"}
\* whether value.get(...) works: dicts only
HasGet(v) == v \in {"L1", "L2", "Ldef", "{}"}

\* a checkpoint dict: the four keys the service writes
EmptyDict ==
    [librarian_data |-> Absent, model1_name |-> Absent,
     analyst_output |-> Absent, model2_name |-> Absent]

\* no review has been requested
ReviewIdle ==
    /\ rv_pc = "idle"
    /\ resume_data = EmptyDict
    /\ rv_given = EmptyDict
    /\ rv_state = EmptyDict
    /\ rv_resumed = FALSE
    /\ rv_calls = 0
    /\ rv_step = 0
    /\ partial_data = EmptyDict
    /\ rv_tries = 0
    /\ rv_called = {}

\* ---------------------------------------------------- shared thread pool
\* the threads that call get_executor() and shutdown_executor(); a pool is
\* identified by the order of its creation, NoPool is None
Threads == {1, 2}
NoPool == 0

\* the module as imported: no pool yet
ExecutorIdle ==
    /\ _executor = NoPool
    /\ pool_shutdown = {}
    /\ pools_made = 0
    /\ ex_pc = [t \in Threads |-> "idle"]
    /\ ex_ret = [t \in Threads |-> NoPool]
    /\ ex_made = {}
    /\ ex_got = {}
    /\ ex_straddle = [t \in Threads |-> FALSE]

\* nothing outside the engine, its callers and its classifiers has been used
AuxIdle ==
    /\ RegistryIdle
    /\ TokensIdle
    /\ ReviewIdle
    /\ ExecutorIdle

\* the engine before generate() is entered
EngineIdle ==
    /\ api_keys = <<>>
    /\ keys = <<>>
    /\ idx = 0
    /\ last_exc = NoExc
    /\ result = Pending
    /\ cycle = 0
    /\ mi = 0
    /\ permanently_failed = {}
    /\ model_last_used = [m \in ModelSet |-> 0]
    /\ last_error = NoError
    /\ wait = 0
    /\ waited = 0
    /\ now = 1
    /\ cancelled = FALSE
    /\ attempts = [m \in ModelSet |-> 0]
    /\ seen = {}
    /\ runs = <<>>
    /\ prevCalls = 0
    /\ permEver = {}
    /\ prevOnlySkip = TRUE
    /\ abortedKeys = {}
    /\ dropped = 0
    /\ lastOutcome = "none"
    /\ okAt = NoOk
    /\ cancelObserved = FALSE
    /\ cancelInSleep = FALSE
    /\ lastModel = "-"
    /\ lastRaised = NoError
    /\ cancelAtEntry = FALSE

Init ==
    /\ path \in {"service", "direct"}
    /\ raw_api_key = <<>>
    /\ raw_api_keys \in (IF path = "service" THEN RawLists(MaxRawKeys) ELSE {<<>>})
    /\ provider \in (IF raw_api_keys = <<>> THEN Providers ELSE {"gemini"})
    /\ envKey \in EnvKeyStrings
    /\ models \in ModelLists
    /\ pc = IF path = "service" THEN "service" ELSE "generate"
    /\ EngineIdle
    /\ AuxIdle
    /\ CallsIdle
    /\ ClassifyIdle

\* --------------------------------------------------- pieces of the engine
\* variant of GenerateKeys: a placeholder credential when nothing is configured
GenerateKeysDefault(own, env) ==
    IF own # <<>> THEN own ELSE IF env # <<>> THEN env ELSE << <<"default">> >>

\* generate(): keys = self.api_keys or self._resolve_env_keys()
GenerateKeys(own, env) == IF own # <<>> THEN own ELSE env

\* variant of KeyAt: the list is walked from its end
KeyAtReversed(ks, i) == ks[Len(ks) + 1 - i]

\* generate(): for idx, key in enumerate(keys)
KeyAt(ks, i) == ks[i]

\* variant of CheckCancel: the probe is never consulted
CheckCancelNever(flag) == FALSE

\* _check_cancel / _smart_wait: cancel_check and cancel_check()
CheckCancel(flag) == flag

\* variant of Ineligible: the "continue" for removed models is missing
IneligibleNever(m, failed) == FALSE

\* _retry_loop: the test "model_name in permanently_failed" that skips a model
Ineligible(m, failed) == m \in failed

\* variant of IsSuccess: the test is "if text", without the strip
IsSuccessNoStrip(text) == Truthy(text)

\* _retry_loop: "if text and text.strip()"
IsSuccess(text) == Truthy(text) /\ Truthy(Strip(text))

\* variant of ReturnValue: the text is returned as received
ReturnValueRaw(text, m) == OkResult(text, m)

\* _retry_loop: "return text.strip(), model_name"
ReturnValue(text, m) == OkResult(Strip(text), m)

\* variant of Disposition: an Abort error is handled like a Skip
DispositionAbortSkips(kind) ==
    CASE kind = "Permanent" -> "remove"
      [] OTHER -> "skip"

\* variant of Disposition: a Permanent error is handled like a Skip
DispositionPermanentSkips(kind) ==
    CASE kind = "Abort" -> "raise"
      [] OTHER -> "skip"

\* variant of Disposition: a Skip error removes the model like a Permanent one
DispositionSkipRemoves(kind) ==
    CASE kind = "Permanent" -> "remove"
      [] kind = "Skip" -> "remove"
      [] kind = "Abort" -> "raise"
      [] OTHER -> "skip"

\* _retry_loop: the except clauses, in order
Disposition(kind) ==
    CASE kind = "Permanent" -> "remove"
      [] kind = "Skip" -> "skip"
      [] kind = "Abort" -> "raise"
      [] OTHER -> "skip"

\* variant of MoreCycles: one cycle too many
MoreCyclesOffByOne(c) == c <= TotalCycles

\* _retry_loop: "if cycle < total_cycles" after the inner loop, and the
\* bound of "for cycle in range(1, total_cycles + 1)"
MoreCycles(c) == c < TotalCycles

\* variant of NextLastError: the first error of the run is kept
NextLastErrorKeepFirst(old, e) == IF old = NoError THEN e ELSE old

\* _retry_loop: "last_error = ..." in the except clauses
NextLastError(old, e) == e

\* variant of CaughtExc: the error of the first failed credential is kept
CaughtExcKeepFirst(old, exc) == IF old = NoExc THEN exc ELSE old

\* generate(): "except Exception as exc: last_exc = exc"
CaughtExc(old, exc) == exc

\* variant of NeedsWait: no model is ever waited for
NeedsWaitNever(last, t) == FALSE

\* _smart_wait: the test that decides whether to sleep at all
NeedsWait(last, t) == last # 0 /\ t - last < MinDelay

\* text made of whitespace only (history bookkeeping)
RECURSIVE Blank(_)
Blank(t) == t = <<>> \/ (Head(t) = " " /\ Blank(Tail(t)))

\* _retry_loop is entered for the credential at position i of ks
StartRun(ks, i) ==
    /\ idx' = i
    /\ cycle' = 1
    /\ mi' = 1
    /\ permanently_failed' = {}
    /\ model_last_used' = [m \in ModelSet |-> 0]
    /\ last_error' = NoError
    /\ wait' = 0
    /\ waited' = 0
    /\ now' = 1
    /\ pc' = "cycle_start"
    /\ runs' = Append(runs, KeyAt(ks, i))
    /\ attempts' = [m \in ModelSet |-> 0]
    /\ seen' = {}
    /\ lastOutcome' = "none"
    /\ lastModel' = "-"
    /\ lastRaised' = NoError

RECURSIVE SumOver(_, _)
SumOver(f, S) ==
    IF S = {} THEN 0
    ELSE LET x == CHOOSE y \in S : TRUE IN f[x] + SumOver(f, S \ {x})

\* history: every model of the list was called in every cycle and only raised Skip
RunOnlySkip(att, sn) ==
    \A i \in 1..Len(models) :
        /\ att[models[i]] = TotalCycles
        /\ \A o \in sn : o[1] = models[i] => o[2] = "Skip"

\* generate(): "except Exception as exc: last_exc = exc", then the next
\* credential, or the final "All keys exhausted" error after the loop.
\* t, att, sn, lo, lm, lr: clock and history of the run at the moment it fails
KeyFailed(exc, t, att, sn, lo, lm, lr) ==
    /\ last_exc' = CaughtExc(last_exc, exc)
    /\ IF idx < Len(keys)
       THEN /\ StartRun(keys, idx + 1)
            /\ result' = result
            /\ prevCalls' = prevCalls + SumOver(att, ModelSet)
            /\ permEver' = permEver \cup {m \in ModelSet : <<m, "Permanent">> \in sn}
            /\ prevOnlySkip' = (prevOnlySkip /\ RunOnlySkip(att, sn))
       ELSE /\ pc' = "done"
            /\ UNCHANGED <<prevCalls, permEver, prevOnlySkip>>
            /\ result' = ErrResult("AllKeysExhausted", CaughtExc(last_exc, exc))
            /\ now' = t
            /\ attempts' = att
            /\ seen' = sn
            /\ lastOutcome' = lo
            /\ lastModel' = lm
            /\ lastRaised' = lr
            /\ UNCHANGED <<idx, retryLocals, runs>>

RunFailed(exc) ==
    KeyFailed(exc, now, attempts, seen, lastOutcome, lastModel, lastRaised)

\* ---------------------------------------------------------------- actions
\* services layer: keys = resolve_provider_keys(...); llm = get_provider(...)
ServiceResolve ==
    /\ pc = "service"
    /\ LET r == resolve_provider_keys(provider, raw_api_key, raw_api_keys, envKey)
       IN  IF r.ok
           THEN /\ api_keys' = r.keys
                /\ pc' = "generate"
                /\ result' = result
                /\ dropped' = Len(KeysToUse(provider, raw_api_key, raw_api_keys, envKey))
                                  - Len(r.keys)
           ELSE /\ api_keys' = api_keys
                /\ pc' = "done"
                /\ result' = ErrResult("MissingKey", NoExc)
                /\ dropped' = dropped
    /\ UNCHANGED <<inputs, keys, idx, last_exc, retryLocals, now, cancelled,
                   runHistory, callHistory, abortedKeys, okAt, cancelObserved,
                   cancelInSleep, cancelAtEntry>>
    /\ UNCHANGED <<callVars, classVars, auxVars>>

\* generate(): key resolution, the empty-list error, entry of the key loop.
\* The service never reads its own api_key / api_keys arguments again once it
\* has called generate(), so they are dropped from the state here.
GenerateEntry ==
    /\ pc = "generate"
    /\ raw_api_key' = <<>>
    /\ raw_api_keys' = <<>>
    /\ LET ks == GenerateKeys(api_keys, ResolveEnvKeys(provider, envKey))
       IN  /\ keys' = ks
           /\ IF ks = <<>>
              THEN /\ pc' = "done"
                   /\ result' = ErrResult("NoKeys", NoExc)
                   /\ UNCHANGED <<idx, retryLocals, now, runs, runHistory>>
              ELSE /\ StartRun(ks, 1)
                   /\ result' = result
    /\ UNCHANGED <<path, provider, envKey, models, api_keys, last_exc, cancelled,
                   prevCalls, permEver, prevOnlySkip, abortedKeys, dropped, okAt,
                   cancelObserved, cancelInSleep>>
    /\ cancelAtEntry' = cancelled
    /\ UNCHANGED <<callVars, classVars, auxVars>>

\* _retry_loop: top of a cycle: _check_cancel, then the "available" test
CycleStart ==
    /\ pc = "cycle_start"
    /\ IF CheckCancel(cancelled)
       THEN /\ cancelObserved' = TRUE
            /\ RunFailed(Cancelled)
       ELSE /\ cancelObserved' = cancelObserved
            /\ IF \A i \in 1..Len(models) : models[i] \in permanently_failed
               THEN RunFailed(AllModelsFailed(last_error))
               ELSE /\ mi' = 1
                    /\ pc' = "model_loop"
                    /\ UNCHANGED <<idx, last_exc, result, cycle, permanently_failed,
                                   model_last_used, last_error, wait, waited, now,
                                   runHistory, callHistory>>
    /\ UNCHANGED <<inputs, api_keys, keys, cancelled, abortedKeys, dropped, cancelAtEntry, okAt,
                   cancelInSleep>>
    /\ UNCHANGED <<callVars, classVars, auxVars>>

\* _retry_loop: "if model_name in permanently_failed: continue"
SkipIneligible ==
    /\ pc = "model_loop"
    /\ mi <= Len(models)
    /\ Ineligible(models[mi], permanently_failed)
    /\ mi' = mi + 1
    /\ UNCHANGED <<inputs, api_keys, genLocals, cycle, permanently_failed,
                   model_last_used, last_error, wait, waited, pc, now, cancelled, history>>
    /\ UNCHANGED <<callVars, classVars, auxVars>>

\* _smart_wait up to its loop, and the timestamp when no sleep is needed
SmartWaitEnter ==
    /\ pc = "model_loop"
    /\ mi <= Len(models)
    /\ ~Ineligible(models[mi], permanently_failed)
    /\ LET m == models[mi]
           last == model_last_used[m]
       IN  IF NeedsWait(last, now)
           THEN /\ wait' = MinDelay - (now - last)
                /\ waited' = 0
                /\ pc' = "waiting"
                /\ model_last_used' = model_last_used
           ELSE /\ model_last_used' = [model_last_used EXCEPT ![m] = now]
                /\ pc' = "call"
                /\ UNCHANGED <<wait, waited>>
    /\ UNCHANGED <<inputs, api_keys, genLocals, cycle, mi, permanently_failed,
                   last_error, now, cancelled, history>>
    /\ UNCHANGED <<callVars, classVars, auxVars>>

\* _smart_wait: one turn of "while waited < wait"
WaitStep ==
    /\ pc = "waiting"
    /\ waited < wait
    /\ IF CheckCancel(cancelled)
       THEN /\ cancelObserved' = TRUE
            /\ RunFailed(Cancelled)
       ELSE /\ cancelObserved' = cancelObserved
            /\ now' = now + SleepStep
            /\ waited' = waited + SleepStep
            /\ UNCHANGED <<idx, last_exc, result, cycle, mi, permanently_failed,
                           model_last_used, last_error, wait, pc,
                           runHistory, callHistory>>
    /\ cancelInSleep' = FALSE
    /\ UNCHANGED <<inputs, api_keys, keys, cancelled, abortedKeys, dropped, cancelAtEntry, okAt>>
    /\ UNCHANGED <<callVars, classVars, auxVars>>

\* _smart_wait returns; model_last_used[model_name] = time.time()
WaitDone ==
    /\ pc = "waiting"
    /\ waited >= wait
    /\ model_last_used' = [model_last_used EXCEPT ![models[mi]] = now]
    /\ wait' = 0
    /\ waited' = 0
    /\ pc' = "call"
    /\ cancelInSleep' = FALSE
    /\ UNCHANGED <<inputs, api_keys, genLocals, cycle, mi, permanently_failed,
                   last_error, now, cancelled, runHistory, callHistory, abortedKeys,
                   dropped, cancelAtEntry, okAt, cancelObserved>>
    /\ UNCHANGED <<callVars, classVars, auxVars>>

\* _call_model returns text: success, or the empty-response branch
CallReturns ==
    /\ pc = "call"
    /\ \E d \in 0..MaxCallTicks, t \in Texts :
        LET m == models[mi]
            kind == IF Blank(t) THEN "empty" ELSE "ok"
        IN  /\ now' = now + d
            /\ attempts' = [attempts EXCEPT ![m] = @ + 1]
            /\ seen' = seen \cup {<<m, kind>>}
            /\ lastOutcome' = kind
            /\ lastModel' = m
            /\ okAt' = IF kind = "ok" /\ okAt = NoOk
                       THEN [idx |-> idx, model |-> m, text |-> t] ELSE okAt
            /\ IF IsSuccess(t)
               THEN /\ result' = ReturnValue(t, m)
                    /\ pc' = "done"
                    /\ mi' = mi
               ELSE /\ result' = result
                    /\ pc' = "model_loop"
                    /\ mi' = mi + 1
    /\ UNCHANGED <<inputs, api_keys, keys, idx, last_exc, cycle, permanently_failed,
                   model_last_used, last_error, wait, waited, cancelled, callHistory,
                   abortedKeys, dropped, cancelAtEntry, cancelObserved, cancelInSleep, lastRaised>>
    /\ UNCHANGED <<callVars, classVars, auxVars>>

\* _call_model raises: the except clauses of _retry_loop
CallRaises ==
    /\ pc = "call"
    /\ \E d \in 0..MaxCallTicks, kind \in {"Permanent", "Skip", "Abort", "Unexpected"} :
        LET m == models[mi]
            att == [attempts EXCEPT ![m] = @ + 1]
            sn == seen \cup {<<m, kind>>}
        IN  /\ abortedKeys' = IF kind = "Abort" THEN abortedKeys \cup {idx} ELSE abortedKeys
            /\ IF Disposition(kind) = "raise"
               THEN KeyFailed(AbortExc(m), now + d, att, sn, kind, m, ModelError(kind, m))
               ELSE /\ now' = now + d
                    /\ attempts' = att
                    /\ seen' = sn
                    /\ lastOutcome' = kind
                    /\ lastModel' = m
                    /\ lastRaised' = ModelError(kind, m)
                    /\ permanently_failed' =
                          IF Disposition(kind) = "remove"
                          THEN permanently_failed \cup {m} ELSE permanently_failed
                    /\ last_error' = NextLastError(last_error, ModelError(kind, m))
                    /\ mi' = mi + 1
                    /\ pc' = "model_loop"
                    /\ UNCHANGED <<idx, last_exc, result, cycle, model_last_used,
                                   wait, waited, callHistory>>
    /\ UNCHANGED <<inputs, api_keys, keys, cancelled, dropped, cancelAtEntry, okAt, cancelObserved,
                   cancelInSleep>>
    /\ UNCHANGED <<callVars, classVars, auxVars>>

\* _retry_loop: the inner loop is over; pause before the next cycle or give up
CycleEnd ==
    /\ pc = "model_loop"
    /\ mi > Len(models)
    /\ IF MoreCycles(cycle)
       THEN /\ pc' = "cycle_pause"
            /\ UNCHANGED <<idx, last_exc, result, retryLocals, now,
                           runHistory, callHistory>>
       ELSE RunFailed(AllModelsFailed(last_error))
    /\ UNCHANGED <<inputs, api_keys, keys, cancelled, abortedKeys, dropped, cancelAtEntry, okAt,
                   cancelObserved, cancelInSleep>>
    /\ UNCHANGED <<callVars, classVars, auxVars>>

\* _retry_loop: time.sleep(1), then the next turn of the cycle loop
CyclePauseDone ==
    /\ pc = "cycle_pause"
    /\ now' = now + CyclePause
    /\ cycle' = cycle + 1
    /\ pc' = "cycle_start"
    /\ cancelInSleep' = FALSE
    /\ UNCHANGED <<inputs, api_keys, genLocals, mi, permanently_failed, model_last_used,
                   last_error, wait, waited, cancelled, runHistory, callHistory,
                   abortedKeys, dropped, cancelAtEntry, okAt, cancelObserved>>
    /\ UNCHANGED <<callVars, classVars, auxVars>>

\* the UI thread sets the request's CancelToken
CancelRequest ==
    /\ pc # "done"
    /\ ~cancelled
    /\ cancelled' = TRUE
    /\ cancelInSleep' = (pc \in {"waiting", "cycle_pause"})
    /\ UNCHANGED <<inputs, api_keys, genLocals, retryLocals, pc, now, runHistory,
                   callHistory, abortedKeys, dropped, cancelAtEntry, okAt, cancelObserved>>
    /\ UNCHANGED <<callVars, classVars, auxVars>>

Next ==
    \/ ServiceResolve
    \/ GenerateEntry
    \/ CycleStart
    \/ SkipIneligible
    \/ SmartWaitEnter
    \/ WaitStep
    \/ WaitDone
    \/ CallReturns
    \/ CallRaises
    \/ CycleEnd
    \/ CyclePauseDone
    \/ CancelRequest

Spec == Init /\ [][Next]_vars

\* ------------------------------------------- resolve_provider_keys alone
\* providers the services layer passes to resolve_provider_keys
KeyProviders == {"gemini", "openai", "ollama"}

\* values of the api_key argument (None and "" are both the empty string)
SingleKeyStrings == {<<>>, <<"k">>, <<" ">>, <<" ", "j">>}

\* a service called with any combination of provider, api_key, api_keys and
\* environment key
InitKeys ==
    /\ path = "service"
    /\ provider \in KeyProviders
    /\ raw_api_key \in SingleKeyStrings
    /\ raw_api_keys \in RawLists(MaxRawKeys)
    /\ envKey \in EnvKeyStrings
    /\ models = <<"a">>
    /\ pc = "service"
    /\ EngineIdle
    /\ AuxIdle
    /\ CallsIdle
    /\ ClassifyIdle

NextKeys == ServiceResolve

SpecKeys == InitKeys /\ [][NextKeys]_vars

\* ------------------------------------------- classification of adapter errors
Adapters == {"gemini", "openai", "ollama", "anthropic", "litellm"}

\* pieces of text an error message is made of
Fragments ==
    {"429", "RESOURCE_EXHAUSTED", "limit: 0", "404", "NOT_FOUND", "INVALID_ARGUMENT",
     "API key not valid", "insufficient_quota", "rate_limit", "model_not_found",
     "invalid_api_key", "authentication", "content_filter", "connection refused",
     "model", "not found", "timeout", "401", "does not exist", "overloaded",
     "model output must contain", "boom"}

\* the patterns of the classifiers that occur in a fragment as it is written
CaseSubstrings(f) ==
    CASE f = "429" -> {"429"}
      [] f = "RESOURCE_EXHAUSTED" -> {"RESOURCE_EXHAUSTED"}
      [] f = "limit: 0" -> {"limit: 0"}
      [] f = "404" -> {"404"}
      [] f = "NOT_FOUND" -> {"NOT_FOUND"}
      [] f = "INVALID_ARGUMENT" -> {"INVALID_ARGUMENT"}
      [] f = "API key not valid" -> {"API key not valid"}
      [] f = "401" -> {"401"}
      [] f = "model output must contain" -> {"model output must contain"}
      [] OTHER -> {}

\* the patterns of the classifiers that occur in a fragment once lower-cased
LowerSubstrings(f) ==
    CASE f = "NOT_FOUND" -> {"not_found"}
      [] f = "INVALID_ARGUMENT" -> {"invalid"}
      [] f = "API key not valid" -> {"api"}
      [] f = "insufficient_quota" -> {"insufficient_quota"}
      [] f = "rate_limit" -> {"rate_limit", "rate"}
      [] f = "model_not_found" -> {"model_not_found", "not_found", "model"}
      [] f = "invalid_api_key" -> {"invalid_api_key", "invalid", "api"}
      [] f = "authentication" -> {"authentication"}
      [] f = "content_filter" -> {"content_filter"}
      [] f = "connection refused" -> {"connection", "connect"}
      [] f = "model" -> {"model"}
      [] f = "not found" -> {"not found"}
      [] f = "timeout" -> {"timeout"}
      [] f = "does not exist" -> {"does not exist"}
      [] f = "overloaded" -> {"overloaded"}
      [] f = "model output must contain" -> {"model"}
      [] OTHER -> {}

\* "p in msg"
InMsg(msg, p) == \E f \in msg : p \in CaseSubstrings(f)

\* "p in low", low = msg.lower()
InLow(msg, p) == \E f \in msg : p \in LowerSubstrings(f)

\* GeminiProvider._classify_error
ClassifyGemini(msg) ==
    IF InMsg(msg, "RESOURCE_EXHAUSTED") \/ InMsg(msg, "429")
    THEN IF InMsg(msg, "limit: 0") \/ InMsg(msg, "limit:0") THEN "Permanent" ELSE "Skip"
    ELSE IF InMsg(msg, "NOT_FOUND") \/ InMsg(msg, "404") THEN "Permanent"
    ELSE IF InMsg(msg, "INVALID_ARGUMENT") /\ InMsg(msg, "API key not valid") THEN "Abort"
    ELSE IF InMsg(msg, "model output must contain") \/ InMsg(msg, "Tool use is not expected")
         THEN "Skip"
    ELSE "Skip"

\* _classify_openai_error
ClassifyOpenAI(msg) ==
    IF InMsg(msg, "429") \/ InLow(msg, "rate_limit")
    THEN IF InLow(msg, "insufficient_quota") THEN "Permanent" ELSE "Skip"
    ELSE IF InMsg(msg, "404") \/ InLow(msg, "model_not_found") THEN "Permanent"
    ELSE IF InLow(msg, "invalid_api_key") \/ InLow(msg, "authentication") THEN "Abort"
    ELSE IF InLow(msg, "content_filter") \/ InLow(msg, "content_policy") THEN "Skip"
    ELSE "Skip"

\* _classify_ollama_error
ClassifyOllama(msg) ==
    IF InLow(msg, "connection") \/ InLow(msg, "connect") THEN "Abort"
    ELSE IF InMsg(msg, "404") \/ (InLow(msg, "model") /\ InLow(msg, "not found"))
         THEN "Permanent"
    ELSE IF InMsg(msg, "429") \/ InLow(msg, "rate") THEN "Skip"
    ELSE "Skip"

\* _classify_anthropic_error
ClassifyAnthropic(msg) ==
    IF InLow(msg, "rate_limit") \/ InMsg(msg, "429") THEN "Skip"
    ELSE IF InLow(msg, "not_found") \/ InMsg(msg, "404") THEN "Permanent"
    ELSE IF InLow(msg, "authentication") \/ (InLow(msg, "invalid") /\ InLow(msg, "api"))
         THEN "Abort"
    ELSE IF InLow(msg, "overloaded") THEN "Skip"
    ELSE "Skip"

\* variant of ClassifyLiteLLM: an error that matches no pattern aborts the credential
ClassifyLiteLLMDefaultAbort(msg) ==
    IF InLow(msg, "rate_limit") \/ InMsg(msg, "429") THEN "Skip"
    ELSE IF InLow(msg, "not_found") \/ InMsg(msg, "404") \/ InLow(msg, "does not exist")
         THEN "Permanent"
    ELSE IF InLow(msg, "authentication") \/ InLow(msg, "invalid_api_key") \/ InMsg(msg, "401")
         THEN "Abort"
    ELSE IF InLow(msg, "timeout") THEN "Skip"
    ELSE "Abort"

\* _classify_litellm_error
ClassifyLiteLLM(msg) ==
    IF InLow(msg, "rate_limit") \/ InMsg(msg, "429") THEN "Skip"
    ELSE IF InLow(msg, "not_found") \/ InMsg(msg, "404") \/ InLow(msg, "does not exist")
         THEN "Permanent"
    ELSE IF InLow(msg, "authentication") \/ InLow(msg, "invalid_api_key") \/ InMsg(msg, "401")
         THEN "Abort"
    ELSE IF InLow(msg, "timeout") THEN "Skip"
    ELSE "Skip"

\* the classifier each adapter's _call_model applies to an exception of its client
Classify(adapter, msg) ==
    CASE adapter = "gemini" -> ClassifyGemini(msg)
      [] adapter = "openai" -> ClassifyOpenAI(msg)
      [] adapter = "ollama" -> ClassifyOllama(msg)
      [] adapter = "anthropic" -> ClassifyAnthropic(msg)
      [] adapter = "litellm" -> ClassifyLiteLLM(msg)

\* the messages considered: at most MaxFragments fragments each
Messages == {msg \in SUBSET Fragments : Cardinality(msg) <= MaxFragments}

\* an adapter call has failed with some message
InitClassify ==
    /\ path = "direct"
    /\ provider = "gemini"
    /\ raw_api_key = <<>>
    /\ raw_api_keys = <<>>
    /\ envKey = <<"e">>
    /\ models = <<"a">>
    /\ pc = "call"
    /\ EngineIdle
    /\ AuxIdle
    /\ CallsIdle
    /\ cls_pc = "raised"
    /\ cls_adapter \in Adapters
    /\ cls_msg \in Messages
    /\ cls_kind = "-"
    /\ cls_disp = "-"

\* _call_model: "except Exception as exc: _classify_...(exc, model)"
ClassifyError ==
    /\ cls_pc = "raised"
    /\ cls_kind' = Classify(cls_adapter, cls_msg)
    /\ cls_pc' = "classified"
    /\ UNCHANGED <<cls_adapter, cls_msg, cls_disp, engineVars, callVars, auxVars>>

\* the exception is raised outside the try block of _call_model and leaves it
\* as it is
EscapeUnclassified ==
    /\ cls_pc = "raised"
    /\ cls_kind' = "Unexpected"
    /\ cls_pc' = "classified"
    /\ UNCHANGED <<cls_adapter, cls_msg, cls_disp, engineVars, callVars, auxVars>>

\* _retry_loop: the except clause that catches it
HandleError ==
    /\ cls_pc = "classified"
    /\ cls_disp' = Disposition(cls_kind)
    /\ cls_pc' = "handled"
    /\ UNCHANGED <<cls_adapter, cls_msg, cls_kind, engineVars, callVars, auxVars>>

NextClassify ==
    \/ ClassifyError
    \/ EscapeUnclassified
    \/ HandleError

SpecClassify == InitClassify /\ [][NextClassify]_vars

\* --------------------------------- two generate() calls on one provider object
\* variant of FrameOf: the retry state is kept on the provider object
FrameShared(c) == 1

\* _retry_loop: permanently_failed and model_last_used are locals, one frame
\* of them per invocation
FrameOf(c) == c

\* two threads are about to call generate() on the same provider, which has
\* one credential
InitCalls ==
    /\ path = "direct"
    /\ provider = "gemini"
    /\ raw_api_key = <<>>
    /\ raw_api_keys = <<>>
    /\ envKey = <<"e">>
    /\ models \in ModelLists
    /\ pc = "generate"
    /\ EngineIdle
    /\ AuxIdle
    /\ CallsIdle
    /\ ClassifyIdle

\* _retry_loop is entered: its locals are created
CallEnter(c) ==
    /\ call_pc[c] = "idle"
    /\ frame_failed' = [frame_failed EXCEPT ![FrameOf(c)] = {}]
    /\ frame_last' = [frame_last EXCEPT ![FrameOf(c)] = [m \in ModelSet |-> 0]]
    /\ call_cycle' = [call_cycle EXCEPT ![c] = 1]
    /\ call_mi' = [call_mi EXCEPT ![c] = 1]
    /\ call_pc' = [call_pc EXCEPT ![c] = "model_loop"]
    /\ UNCHANGED <<clock, call_perm, call_stamped, engineVars, classVars, auxVars>>

\* _retry_loop: "if model_name in permanently_failed: continue"
CallSkip(c) ==
    /\ call_pc[c] = "model_loop"
    /\ call_mi[c] <= Len(models)
    /\ Ineligible(models[call_mi[c]], frame_failed[FrameOf(c)])
    /\ call_mi' = [call_mi EXCEPT ![c] = @ + 1]
    /\ UNCHANGED <<call_pc, call_cycle, frame_failed, frame_last, clock, call_perm,
                   call_stamped, engineVars, classVars, auxVars>>

\* _smart_wait, slept through when a wait is needed, and the timestamp
CallSmartWait(c) ==
    /\ call_pc[c] = "model_loop"
    /\ call_mi[c] <= Len(models)
    /\ ~Ineligible(models[call_mi[c]], frame_failed[FrameOf(c)])
    /\ LET m == models[call_mi[c]]
           last == frame_last[FrameOf(c)][m]
           t == IF NeedsWait(last, clock) THEN last + MinDelay ELSE clock
       IN  /\ clock' = t
           /\ frame_last' = [frame_last EXCEPT ![FrameOf(c)][m] = t]
           /\ call_stamped' = [call_stamped EXCEPT ![c] = @ \cup {m}]
    /\ call_pc' = [call_pc EXCEPT ![c] = "call"]
    /\ UNCHANGED <<call_cycle, call_mi, frame_failed, call_perm, engineVars, classVars, auxVars>>

\* _call_model, taking its longest time, and what _retry_loop does with its
\* outcome
CallAttempt(c) ==
    /\ call_pc[c] = "call"
    /\ \E kind \in {"ok", "Permanent", "Skip", "Abort"} :
        LET m == models[call_mi[c]]
        IN  /\ clock' = clock + MaxCallTicks
            /\ IF kind = "ok" \/ Disposition(kind) = "raise"
               THEN /\ call_pc' = [call_pc EXCEPT ![c] = "done"]
                    /\ UNCHANGED <<call_mi, frame_failed, call_perm>>
               ELSE /\ call_pc' = [call_pc EXCEPT ![c] = "model_loop"]
                    /\ call_mi' = [call_mi EXCEPT ![c] = @ + 1]
                    /\ frame_failed' =
                          IF Disposition(kind) = "remove"
                          THEN [frame_failed EXCEPT ![FrameOf(c)] = @ \cup {m}]
                          ELSE frame_failed
                    /\ call_perm' = IF kind = "Permanent"
                                    THEN [call_perm EXCEPT ![c] = @ \cup {m}]
                                    ELSE call_perm
    /\ UNCHANGED <<call_cycle, frame_last, call_stamped, engineVars, classVars, auxVars>>

\* _retry_loop: the end of the inner loop, the pause, the "available" test of
\* the next cycle
CallCycleEnd(c) ==
    /\ call_pc[c] = "model_loop"
    /\ call_mi[c] > Len(models)
    /\ IF MoreCycles(call_cycle[c])
       THEN /\ clock' = clock + CyclePause
            /\ IF \A i \in 1..Len(models) : models[i] \in frame_failed[FrameOf(c)]
               THEN /\ call_pc' = [call_pc EXCEPT ![c] = "done"]
                    /\ UNCHANGED <<call_cycle, call_mi>>
               ELSE /\ call_cycle' = [call_cycle EXCEPT ![c] = @ + 1]
                    /\ call_mi' = [call_mi EXCEPT ![c] = 1]
                    /\ call_pc' = call_pc
       ELSE /\ call_pc' = [call_pc EXCEPT ![c] = "done"]
            /\ UNCHANGED <<clock, call_cycle, call_mi>>
    /\ UNCHANGED <<frame_failed, frame_last, call_perm, call_stamped, engineVars,
                   classVars, auxVars>>

NextCalls ==
    \/ \E c \in Calls : CallEnter(c)
    \/ \E c \in Calls : CallSkip(c)
    \/ \E c \in Calls : CallSmartWait(c)
    \/ \E c \in Calls : CallAttempt(c)
    \/ \E c \in Calls : CallCycleEnd(c)

SpecCalls == InitCalls /\ [][NextCalls]_vars

\* ---------------------------------------------- specification: the registry
\* the engine is not running while the registry is exercised
EngineParked ==
    /\ path = "direct"
    /\ provider = "gemini"
    /\ raw_api_key = <<>>
    /\ raw_api_keys = <<>>
    /\ envKey = <<"e">>
    /\ models = <<"a">>
    /\ pc = "done"
    /\ EngineIdle
    /\ CallsIdle
    /\ ClassifyIdle

InitRegistry ==
    /\ EngineParked
    /\ AuxIdle

\* register_provider(name, cls)
RegisterProvider ==
    /\ Cardinality(reg_given) < MaxRegistrations
    /\ \E name \in CustomNames, cls \in CustomClasses :
          /\ _PROVIDERS' = register_provider(_PROVIDERS, name, cls)
          /\ reg_name' = name
          /\ reg_cls' = cls
          /\ reg_given' = reg_given \cup {name}
    /\ reg_pc' = "registered"
    /\ UNCHANGED <<reg_out, reg_list>>
    /\ UNCHANGED notRegVars

\* get_provider(name)
GetProvider ==
    /\ \E name \in Names :
          /\ reg_name' = name
          /\ reg_out' = get_provider(_PROVIDERS, name)
    /\ reg_pc' = "got"
    /\ UNCHANGED <<_PROVIDERS, reg_cls, reg_list, reg_given>>
    /\ UNCHANGED notRegVars

\* list_providers()
ListProviders ==
    /\ reg_list' = list_providers(_PROVIDERS)
    /\ reg_pc' = "listed"
    /\ UNCHANGED <<_PROVIDERS, reg_name, reg_cls, reg_out, reg_given>>
    /\ UNCHANGED notRegVars

NextRegistry ==
    \/ RegisterProvider
    \/ GetProvider
    \/ ListProviders

SpecRegistry == InitRegistry /\ [][NextRegistry]_vars

\* ------------------------------------ specification: two requests in flight
\* The handlers are coroutines of one event loop: what runs between two
\* yields is one step. A session starts its next request only when the worker
\* of its previous one has ended.
InitTokens ==
    /\ EngineParked
    /\ AuxIdle

\* generate_summary up to its first yield: a fresh token, published in the
\* module global
StartRequest(r) ==
    /\ req_pc[r] = "idle"
    /\ ~worker_running[r]
    /\ cancel_requested' = [cancel_requested EXCEPT ![r] = FALSE]
    /\ token_set' = [token_set EXCEPT ![r] = FALSE]
    /\ _active_token' = r
    /\ _cancel_flag' = FALSE
    /\ req_pc' = [req_pc EXCEPT ![r] = "started"]
    /\ last_confirm' = 0
    /\ UNCHANGED worker_running
    /\ UNCHANGED notTokVars

\* the returns that precede the try block: no uploaded file, or the token
\* already set; the finally clause is not reached
ReturnBeforeSubmit(r) ==
    /\ req_pc[r] = "started"
    /\ \E uploaded \in BOOLEAN : ~uploaded \/ token_set[r]
    /\ req_pc' = [req_pc EXCEPT ![r] = "idle"]
    /\ last_confirm' = 0
    /\ UNCHANGED <<_active_token, token_set, worker_running, cancel_requested,
                   _cancel_flag>>
    /\ UNCHANGED notTokVars

\* executor.submit(service, ..., cancel_check=token.is_set)
SubmitWorker(r) ==
    /\ req_pc[r] = "started"
    /\ ~token_set[r]
    /\ worker_running' = [worker_running EXCEPT ![r] = TRUE]
    /\ req_pc' = [req_pc EXCEPT ![r] = "polling"]
    /\ last_confirm' = 0
    /\ UNCHANGED <<_active_token, token_set, cancel_requested, _cancel_flag>>
    /\ UNCHANGED notTokVars

\* the poll loop sees the token or the session's flag: future.cancel(), which
\* leaves a running worker running, return, and the finally clause
PollSeesCancel(r) ==
    /\ req_pc[r] = "polling"
    /\ worker_running[r]
    /\ token_set[r] \/ cancel_requested[r]
    /\ req_pc' = [req_pc EXCEPT ![r] = "idle"]
    /\ _active_token' = NoToken
    /\ last_confirm' = 0
    /\ UNCHANGED <<token_set, worker_running, cancel_requested, _cancel_flag>>
    /\ UNCHANGED notTokVars

\* the service function returns or raises in its worker thread
WorkerEnds(r) ==
    /\ worker_running[r]
    /\ worker_running' = [worker_running EXCEPT ![r] = FALSE]
    /\ last_confirm' = 0
    /\ UNCHANGED <<_active_token, token_set, req_pc, cancel_requested, _cancel_flag>>
    /\ UNCHANGED notTokVars

\* future.done(): the rest of the handler and its finally clause
FinishRequest(r) ==
    /\ req_pc[r] = "polling"
    /\ ~worker_running[r]
    /\ req_pc' = [req_pc EXCEPT ![r] = "idle"]
    /\ _active_token' = NoToken
    /\ last_confirm' = 0
    /\ UNCHANGED <<token_set, worker_running, cancel_requested, _cancel_flag>>
    /\ UNCHANGED notTokVars

\* confirm_cancel in the session of request r, while that request is shown
\* as processing
ConfirmCancel(r) ==
    /\ req_pc[r] # "idle"
    /\ cancel_requested' = [cancel_requested EXCEPT ![r] = TRUE]
    /\ _cancel_flag' = TRUE
    /\ token_set' = IF _active_token # NoToken
                    THEN [token_set EXCEPT ![_active_token] = TRUE]
                    ELSE token_set
    /\ last_confirm' = r
    /\ UNCHANGED <<_active_token, req_pc, worker_running>>
    /\ UNCHANGED notTokVars

NextTokens ==
    \/ \E r \in Requests : StartRequest(r)
    \/ \E r \in Requests : ReturnBeforeSubmit(r)
    \/ \E r \in Requests : SubmitWorker(r)
    \/ \E r \in Requests : PollSeesCancel(r)
    \/ \E r \in Requests : WorkerEnds(r)
    \/ \E r \in Requests : FinishRequest(r)
    \/ \E r \in Requests : ConfirmCancel(r)

SpecTokens == InitTokens /\ [][NextTokens]_vars

\* --------------------------------------- specification: review and resume
InitReview ==
    /\ EngineParked
    /\ AuxIdle

ReviewEnded == rv_pc \in {"idle", "failed", "ok", "crashed"}

\* review_book_syntopic entered with resume_state rs:
\* state = dict(resume_state) if resume_state else {}
EnterReview(rs, resumed) ==
    /\ rv_given' = rs
    /\ rv_state' = rs
    /\ rv_resumed' = resumed
    /\ rv_calls' = 0
    /\ rv_called' = {}
    /\ rv_step' = 0
    /\ rv_pc' = "step1"
    /\ rv_tries' = rv_tries + 1

\* generate_review: the checkpoint is dropped and the review starts afresh
GenerateReview ==
    /\ ReviewEnded
    /\ rv_tries < MaxReviewCalls
    /\ resume_data' = EmptyDict
    /\ EnterReview(EmptyDict, FALSE)
    /\ UNCHANGED partial_data
    /\ UNCHANGED notRevVars

\* resume_review: refused without a checkpoint, else the review is called
\* with resume_state = state.resume_data
ResumeReview ==
    /\ ReviewEnded
    /\ rv_tries < MaxReviewCalls
    /\ resume_data # EmptyDict
    /\ EnterReview(resume_data, TRUE)
    /\ UNCHANGED <<resume_data, partial_data>>
    /\ UNCHANGED notRevVars

\* raise PartialCompletionError(..., state) in step k; the handler stores its
\* partial_data as the session's checkpoint
RaisePartial(k, st) ==
    /\ rv_pc' = "failed"
    /\ rv_step' = k
    /\ rv_state' = st
    /\ partial_data' = st
    /\ resume_data' = st

\* step 1 when the checkpoint holds a truthy librarian_data
Step1Skip ==
    /\ rv_pc = "step1"
    /\ TruthyValue(rv_state.librarian_data)
    /\ rv_pc' = "step2"
    /\ UNCHANGED <<resume_data, rv_given, rv_state, rv_resumed, rv_calls, rv_step,
                   partial_data, rv_tries, rv_called>>
    /\ UNCHANGED notRevVars

\* step 1: the Librarian call, the parse, the checkpoint, the log line that
\* reads librarian_data.get('category')
Step1Call ==
    /\ rv_pc = "step1"
    /\ ~TruthyValue(rv_state.librarian_data)
    /\ rv_calls' = rv_calls + 1
    /\ rv_called' = rv_called \cup {1}
    /\ \/ RaisePartial(1, rv_state)
       \/ \E v \in LibValues, m \in ModelNames :
             LET st == [rv_state EXCEPT !.librarian_data = v, !.model1_name = m]
             IN  IF HasGet(v)
                 THEN /\ rv_state' = st
                      /\ rv_pc' = "step2"
                      /\ UNCHANGED <<resume_data, rv_step, partial_data>>
                 ELSE RaisePartial(1, st)
    /\ UNCHANGED <<rv_given, rv_resumed, rv_tries>>
    /\ UNCHANGED notRevVars

\* step 2 when the checkpoint holds a truthy analyst_output
Step2Skip ==
    /\ rv_pc = "step2"
    /\ TruthyValue(rv_state.analyst_output)
    /\ rv_pc' = "step3"
    /\ UNCHANGED <<resume_data, rv_given, rv_state, rv_resumed, rv_calls, rv_step,
                   partial_data, rv_tries, rv_called>>
    /\ UNCHANGED notRevVars

\* step 2: the prompt is chosen by librarian_data.get("category"), then the
\* Analyst call and the checkpoint
Step2Call ==
    /\ rv_pc = "step2"
    /\ ~TruthyValue(rv_state.analyst_output)
    /\ IF ~HasGet(rv_state.librarian_data)
       THEN /\ RaisePartial(2, rv_state)
            /\ UNCHANGED <<rv_calls, rv_called>>
       ELSE /\ rv_calls' = rv_calls + 1
            /\ rv_called' = rv_called \cup {2}
            /\ \/ RaisePartial(2, rv_state)
               \/ \E t \in AnalystTexts, m \in ModelNames :
                     /\ rv_state' = [rv_state EXCEPT !.analyst_output = t,
                                                     !.model2_name = m]
                     /\ rv_pc' = "step3"
                     /\ UNCHANGED <<resume_data, rv_step, partial_data>>
    /\ UNCHANGED <<rv_given, rv_resumed, rv_tries>>
    /\ UNCHANGED notRevVars

\* step 3: the Editor call; on success the result dict is built with
\* librarian_data.get(...), outside every try block
Step3Call ==
    /\ rv_pc = "step3"
    /\ rv_calls' = rv_calls + 1
    /\ rv_called' = rv_called \cup {3}
    /\ \/ RaisePartial(3, rv_state)
       \/ /\ rv_pc' = IF HasGet(rv_state.librarian_data) THEN "ok" ELSE "crashed"
          /\ resume_data' = IF HasGet(rv_state.librarian_data) /\ rv_resumed
                            THEN EmptyDict ELSE resume_data
          /\ UNCHANGED <<rv_state, rv_step, partial_data>>
    /\ UNCHANGED <<rv_given, rv_resumed, rv_tries>>
    /\ UNCHANGED notRevVars

NextReview ==
    \/ GenerateReview
    \/ ResumeReview
    \/ Step1Skip
    \/ Step1Call
    \/ Step2Skip
    \/ Step2Call
    \/ Step3Call

SpecReview == InitReview /\ [][NextReview]_vars

\* ------------------------------------ specification: the shared executor
\* Neither function takes a lock: a thread can be preempted between the test
\* of the global, the assignment to it and the read of it in the return
\* statement.
InitExecutor ==
    /\ EngineParked
    /\ AuxIdle

\* get_executor: if _executor is None or _executor._shutdown
GetExecutorTest(t) ==
    /\ ex_pc[t] = "idle"
    /\ ex_pc' = [ex_pc EXCEPT ![t] =
                    IF _executor = NoPool \/ _executor \in pool_shutdown
                    THEN "create" ELSE "return"]
    /\ ex_straddle' = [ex_straddle EXCEPT ![t] = FALSE]
    /\ UNCHANGED <<_executor, pool_shutdown, pools_made, ex_ret, ex_made, ex_got>>
    /\ UNCHANGED notExeVars

\* get_executor: _executor = ThreadPoolExecutor(...)
GetExecutorCreate(t) ==
    /\ ex_pc[t] = "create"
    /\ pools_made < MaxPools
    /\ pools_made' = pools_made + 1
    /\ _executor' = pools_made + 1
    /\ ex_made' = ex_made \cup {pools_made + 1}
    /\ ex_pc' = [ex_pc EXCEPT ![t] = "return"]
    /\ UNCHANGED <<pool_shutdown, ex_ret, ex_got, ex_straddle>>
    /\ UNCHANGED notExeVars

\* get_executor: return _executor
GetExecutorReturn(t) ==
    /\ ex_pc[t] = "return"
    /\ ex_ret' = [ex_ret EXCEPT ![t] = _executor]
    /\ ex_got' = IF ex_straddle[t] THEN ex_got ELSE ex_got \cup {_executor}
    /\ ex_pc' = [ex_pc EXCEPT ![t] = "idle"]
    /\ UNCHANGED <<_executor, pool_shutdown, pools_made, ex_made, ex_straddle>>
    /\ UNCHANGED notExeVars

\* shutdown_executor: if _executor is not None: _executor.shutdown(...)
ShutdownExecutorCall(t) ==
    /\ ex_pc[t] = "idle"
    /\ _executor # NoPool
    /\ pool_shutdown' = pool_shutdown \cup {_executor}
    /\ ex_pc' = [ex_pc EXCEPT ![t] = "clear"]
    /\ ex_made' = {}
    /\ ex_got' = {}
    /\ ex_straddle' = [u \in Threads |-> ex_pc[u] \in {"create", "return"}]
    /\ UNCHANGED <<_executor, pools_made, ex_ret>>
    /\ UNCHANGED notExeVars

\* shutdown_executor: _executor = None
ShutdownExecutorClear(t) ==
    /\ ex_pc[t] = "clear"
    /\ _executor' = NoPool
    /\ ex_pc' = [ex_pc EXCEPT ![t] = "idle"]
    /\ UNCHANGED <<pool_shutdown, pools_made, ex_ret, ex_made, ex_got, ex_straddle>>
    /\ UNCHANGED notExeVars

NextExecutor ==
    \/ \E t \in Threads : GetExecutorTest(t)
    \/ \E t \in Threads : GetExecutorCreate(t)
    \/ \E t \in Threads : GetExecutorReturn(t)
    \/ \E t \in Threads : ShutdownExecutorCall(t)
    \/ \E t \in Threads : ShutdownExecutorClear(t)

SpecExecutor == InitExecutor /\ [][NextExecutor]_vars

\* ================================================================ claims
CurrentModel == models[mi]
ClassifiedPermanent(m) == <<m, "Permanent">> \in seen
TotalCalls == prevCalls + SumOver(attempts, ModelSet)
InRun == pc \in {"cycle_start", "model_loop", "waiting", "call", "cycle_pause"}

\* C1: within the run of one credential every model is passed to _call_model
\* at most TotalCycles times, and a model that raised a Permanent error in
\* this run is never about to be called again in it.
C1_AttemptsBounded ==
    /\ \A m \in ModelSet : attempts[m] <= TotalCycles
    /\ pc \in {"waiting", "call"} => ~ClassifiedPermanent(CurrentModel)

\* C1 witness: in the last cycle the engine calls a model for the
\* TotalCycles-th time while another model, classified Permanent, has been
\* called only once.
C1_Witness ==
    /\ pc = "call"
    /\ cycle = TotalCycles
    /\ attempts[CurrentModel] = TotalCycles - 1
    /\ \E m \in ModelSet : m # CurrentModel /\ ClassifiedPermanent(m) /\ attempts[m] = 1

\* C2 (as claimed): once the probe has returned true at a check point the
\* call is over and its outcome is the Cancelled error.
C2_CancelEndsCall ==
    cancelObserved => /\ pc = "done"
                      /\ result.status = "error"
                      /\ result.error = "Cancelled"

\* C3 (as claimed): a model classified Permanent by any run of the call,
\* under this credential or an earlier one, is never about to be called again.
C3_NeverAgainInCall ==
    pc \in {"waiting", "call"} =>
        /\ ~ClassifiedPermanent(CurrentModel)
        /\ CurrentModel \notin permEver

\* C3 (amended): the ineligible set is exactly the set of models classified
\* Permanent under the current credential: such a model is never called again
\* under that credential, and the set is empty again when the next credential
\* starts, so the model is tried afresh under each later credential.
C3_IneligiblePerCredential ==
    /\ InRun => permanently_failed = {m \in ModelSet : ClassifiedPermanent(m)}
    /\ pc \in {"waiting", "call"} => CurrentModel \notin permanently_failed

\* C3 witness: a model classified Permanent under an earlier credential is
\* called under the current one, where another model is already ineligible.
C3_Witness ==
    /\ pc = "call"
    /\ CurrentModel \in permEver
    /\ permanently_failed # {}

\* C4 (as claimed): after a non-blank return of _call_model the call is over
\* and its result is exactly the returned text with the model that was called.
C4_ReturnsTextAsReceived ==
    okAt # NoOk => /\ pc = "done"
                   /\ result = OkResult(okAt.text, okAt.model)

\* C4 (amended): after a non-blank return of _call_model the call is over, no
\* step of the engine follows, and the result is the returned text without
\* its leading and trailing whitespace, with the model that was called.  With
\* models [a, b], a always Permanent and b returning "hello" at its first
\* attempt, the result is ("hello", b) and a was attempted exactly once.
C4_ReturnsStrippedText ==
    /\ okAt # NoOk =>
          /\ pc = "done"
          /\ ~ENABLED Next
          /\ idx = okAt.idx
          /\ result.status = "ok"
          /\ result.model = okAt.model
          /\ result.text = Strip(okAt.text)
          /\ LStrip(result.text) = result.text
          /\ RStrip(result.text) = result.text
    /\ ( /\ models = <<"a", "b">>
         /\ okAt.model = "b"
         /\ okAt.text = <<"hello">>
         /\ attempts["b"] = 1
         /\ \A o \in seen : o[1] = "a" => o[2] = "Permanent" )
       => /\ result = OkResult(<<"hello">>, "b")
          /\ attempts["a"] = 1

\* C4 witness: a was classified Permanent, b then returned "hello".
C4_Witness ==
    /\ models = <<"a", "b">>
    /\ ClassifiedPermanent("a")
    /\ attempts["a"] = 1
    /\ pc = "done"
    /\ result = OkResult(<<"hello">>, "b")

\* C5: progress measure of a request: the credentials, cycles, models and
\* sleep increments still ahead of the control position.
WaitBlock == MinDelay + 4
CycleBlock == (Len(models) + 1) * WaitBlock + 1
RunBlock == TotalCycles * CycleBlock
PosInCycle ==
    CASE pc = "cycle_start" -> (Len(models) + 1) * WaitBlock
      [] pc = "model_loop" -> (Len(models) + 1 - mi) * WaitBlock + MinDelay + 3
      [] pc = "waiting" -> (Len(models) + 1 - mi) * WaitBlock + 2
                              + (IF wait > waited THEN wait - waited ELSE 0)
      [] pc = "call" -> (Len(models) + 1 - mi) * WaitBlock + 1
      [] OTHER -> 0
Measure ==
    CASE pc = "service" -> 3 + MaxRawKeys * RunBlock
      [] pc = "generate" -> 2 + MaxRawKeys * RunBlock
      [] pc = "done" -> 0
      [] OTHER -> 1 + (Len(keys) - idx) * RunBlock
                    + (TotalCycles - cycle) * CycleBlock + PosInCycle

C5_State ==
    /\ TotalCalls <= Len(keys) * TotalCycles * Len(models)
    /\ Measure >= 0
    /\ pc # "done" => ENABLED Next
    /\ ( /\ models = <<"a">>
         /\ prevOnlySkip
         /\ seen = {<<"a", "Skip">>}
         /\ ~cancelObserved
         /\ pc = "done" )
       => /\ attempts["a"] = TotalCycles
          /\ TotalCalls = Len(keys) * TotalCycles
          /\ result = ErrResult("AllKeysExhausted",
                                AllModelsFailed(ModelError("Skip", "a")))

C5_Step ==
    IF cancelled' = cancelled
    THEN Measure' < Measure
    ELSE ~cancelled /\ cancelled' /\ Measure' = Measure

\* C5: generate() terminates: every step of the engine lowers a measure that
\* is never negative, the probe can change only once, and only a finished
\* call has no step left; the adapter is called at most
\* |credentials| x TotalCycles x |models| times; a single model that always
\* raises Skip and is never interrupted is called exactly TotalCycles times
\* under every credential, after which the call fails with the exhaustion
\* error.
C5_Terminates == [](C5_State) /\ [][C5_Step]_vars

\* C5 witness: the single model raised Skip in every cycle under both
\* credentials and the call has failed with the exhaustion error.
C5_Witness ==
    /\ models = <<"a">>
    /\ Len(keys) = 2
    /\ prevOnlySkip
    /\ ~cancelObserved
    /\ seen = {<<"a", "Skip">>}
    /\ attempts["a"] = TotalCycles
    /\ pc = "done"
    /\ result.error = "AllKeysExhausted"
    /\ result.cause.type = "AllModelsFailed"

\* C6: the engine runs are made for the credentials of the list in list
\* order, a run for the next credential starts only after the previous run
\* has failed, and a successful run is the last one.  With two credentials,
\* every model raising Skip in every cycle under the first and a model
\* returning text under the second, the call returns that text and model.
C6_KeysInOrder ==
    /\ Len(runs) = idx
    /\ \A i \in 1..Len(runs) : runs[i] = keys[i]
    /\ idx > 1 => last_exc.type \in {"AllModelsFailed", "Abort", "Cancelled"}
    /\ pc # "done" => result = Pending
    /\ result.status = "ok" => pc = "done" /\ okAt.idx = idx
    /\ (Len(keys) = 2 /\ okAt.idx = 2 /\ prevOnlySkip)
       => /\ result.status = "ok"
          /\ result.model = okAt.model
          /\ result.text = Strip(okAt.text)

\* C6 witness: the first credential failed with Skip on every model in every
\* cycle, the second returned "ok".
C6_Witness ==
    /\ pc = "done"
    /\ Len(runs) = 2
    /\ prevOnlySkip
    /\ last_exc.type = "AllModelsFailed"
    /\ result.status = "ok"
    /\ result.text = <<"ok">>

\* C7: a credential whose run met an Abort error is never the current
\* credential of a running engine again; the rotation has moved on to the
\* next credential if there is one, otherwise the call has failed with the
\* final exhaustion error that carries the Abort.
C7_AbortEndsCredential ==
    \A i \in abortedKeys :
        /\ InRun => idx # i
        /\ IF i < Len(keys)
           THEN idx > i /\ Len(runs) > i
           ELSE /\ pc = "done"
                /\ result.status = "error"
                /\ result.error = "AllKeysExhausted"
                /\ result.cause.type = "Abort"

\* C7 witness: the first credential was aborted and the adapter is being
\* called with the second.
C7_Witness ==
    /\ 1 \in abortedKeys
    /\ idx = 2
    /\ pc = "call"

NoDuplicates(q) == \A i, j \in 1..Len(q) : i # j => q[i] # q[j]
FirstIndex(q, x) == CHOOSE i \in 1..Len(q) : q[i] = x /\ \A j \in 1..(i - 1) : q[j] # x
Trimmed(q) == [i \in 1..Len(q) |-> Strip(q[i])]

C9_EmptyKeysFailAtOnce ==
    (api_keys = <<>> /\ envKey = <<>> /\ provider # "ollama"
       /\ pc \notin {"service", "generate"})
    => /\ pc = "done"
       /\ result.status = "error"
       /\ result.error \in {"NoKeys", "MissingKey"}
       /\ runs = <<>>
       /\ TotalCalls = 0

\* C9 witness: generate() called on a provider without keys and without an
\* environment key has failed with the "No API keys" error.
C9_Witness ==
    /\ path = "direct"
    /\ pc = "done"
    /\ result.error = "NoKeys"

C10_State ==
    /\ \A m \in ModelSet :
          (<<m, "empty">> \in seen /\ m \in permanently_failed) => ClassifiedPermanent(m)
    /\ (pc = "model_loop" /\ mi > Len(models)) =>
          \A m \in SeqToSet(models) :
             (<<m, "empty">> \in seen /\ ~ClassifiedPermanent(m)) => attempts[m] = cycle

C10_Step ==
    (pc = "call" /\ pc' # "call" /\ lastOutcome' = "empty")
    => /\ pc' = "model_loop"
       /\ mi' = mi + 1
       /\ cycle' = cycle
       /\ idx' = idx
       /\ permanently_failed' = permanently_failed
       /\ result' = Pending

\* C10: a blank return (empty or whitespace only) is handled like a Skip: the
\* engine goes on to the next position of the model list in the same cycle
\* under the same credential, the model is not made ineligible, and at the
\* end of every cycle the model has been called once per cycle so far.
C10_EmptyIsSkipped == [](C10_State) /\ [][C10_Step]_vars

\* C10 witness: in the second cycle the engine calls a model that returned a
\* blank text in the first.
C10_Witness ==
    /\ pc = "call"
    /\ cycle = 2
    /\ <<CurrentModel, "empty">> \in seen
    /\ attempts[CurrentModel] = 1

\* C11 (as claimed): once the token has been set during a smart wait, the
\* next step of the engine observes it and ends the run with Cancelled: no
\* further sleep, and the adapter is not called for the model waited for.
C11_CancelInWaitStopsRun ==
    [][(pc = "waiting" /\ cancelInSleep)
       => /\ pc' # "call"
          /\ now' <= now
          /\ cancelObserved'
          /\ last_exc' = Cancelled]_vars

\* C12 (as claimed): once the token has been set during the pause between two
\* cycles, the engine observes it after at most one sleep increment and ends
\* the run with Cancelled.
C12_CancelInPauseStopsRun ==
    [][(pc = "cycle_pause" /\ cancelInSleep)
       => /\ now' <= now + SleepStep
          /\ cancelObserved'
          /\ last_exc' = Cancelled]_vars

\* C13 (as claimed): the pause between two cycles is taken only while some
\* model of the list is still eligible.
C13_NoPauseWhenAllIneligible ==
    pc = "cycle_pause" => \E i \in 1..Len(models) : models[i] \notin permanently_failed

\* the exception that leaves _retry_loop in a step that ends the current run
RunEndingExc ==
    IF pc = "call" THEN AbortExc(CurrentModel)
    ELSE IF pc \in {"cycle_start", "waiting"} /\ cancelled THEN Cancelled
    ELSE AllModelsFailed(last_error)

C14_State ==
    (pc = "done" /\ keys # <<>> /\ result.status = "error")
    => /\ result.error = "AllKeysExhausted"
       /\ idx = Len(keys)
       /\ Len(runs) = Len(keys)
       /\ result.cause = last_exc
       /\ result.cause # NoExc

C14_Step ==
    (InRun /\ pc' = "done" /\ result'.status = "error")
    => /\ idx = Len(keys)
       /\ runs[Len(keys)] = KeyAt(keys, Len(keys))
       /\ result'.cause = RunEndingExc

\* C14: when the run of every credential has failed, generate() ends with the
\* "All keys exhausted" error, raised in the step that ends the run of the
\* last credential of the list, and the error it carries is the exception
\* that ended that run.
C14_CarriesLastKeyError == [](C14_State) /\ [][C14_Step]_vars

\* C14 witness: two credentials, the run of the first ended by an Abort; the
\* final error carries the "all models failed" error of the second.
C14_Witness ==
    /\ pc = "done"
    /\ result.error = "AllKeysExhausted"
    /\ Len(keys) = 2
    /\ 1 \in abortedKeys
    /\ 2 \notin abortedKeys
    /\ result.cause.type = "AllModelsFailed"

\* the run is in the step that leaves the cycle loop with every cycle used up
CyclesUsedUp == pc = "model_loop" /\ mi > Len(models) /\ ~MoreCycles(cycle)

\* C15 (as claimed): the error raised when the cycles are used up carries the
\* outcome of the latest attempt of the run, whatever it was: Permanent,
\* Skip, unexpected exception or empty response.
C15_CarriesLatestAttempt ==
    [][(CyclesUsedUp /\ pc' # pc)
       => /\ last_exc'.type = "AllModelsFailed"
          /\ last_exc'.kind = lastOutcome
          /\ last_exc'.model = lastModel]_vars

\* C15: the error raised when the cycles are used up carries the error of the
\* latest attempt of the run that raised (Permanent, Skip or unexpected
\* exception); an empty response leaves the carried error as it was, and the
\* error carries none when no attempt of the run raised.
C15_CarriesLatestRaised ==
    [][(CyclesUsedUp /\ pc' # pc)
       => /\ last_exc' = AllModelsFailed(lastRaised)
          /\ lastOutcome \in {"Permanent", "Skip", "Unexpected"}
                => (last_exc'.kind = lastOutcome /\ last_exc'.model = lastModel)
          /\ lastOutcome = "empty"
                => \/ lastRaised = NoError /\ (\A o \in seen : o[2] = "empty")
                   \/ <<lastRaised.model, lastRaised.kind>> \in seen]_vars

\* C15 witness: the last credential's run used up its cycles; its latest
\* attempt returned an empty response and the error carried is the Skip of
\* an earlier attempt on another model.
C15_Witness ==
    /\ pc = "done"
    /\ cycle = TotalCycles
    /\ result.cause.type = "AllModelsFailed"
    /\ lastOutcome = "empty"
    /\ result.cause.kind = "Skip"
    /\ result.cause.model # lastModel

InCycle == pc \in {"model_loop", "waiting", "call"}

\* calls of the model at position i made by the cycles before the current one
\* and by the part of the current cycle that is over
PassesOver(i) == IF i < mi THEN cycle ELSE cycle - 1

C20_State ==
    /\ \A m \in ModelSet :
          (<<m, "Skip">> \in seen /\ ~ClassifiedPermanent(m)) => m \notin permanently_failed
    /\ InCycle =>
          \A i \in 1..Len(models) :
              /\ attempts[models[i]] <= PassesOver(i)
              /\ models[i] \notin permanently_failed => attempts[models[i]] = PassesOver(i)

C20_Step ==
    /\ (InCycle /\ pc' \in {"model_loop", "waiting", "call"} /\ idx' = idx) =>
          /\ cycle' = cycle
          /\ mi' >= mi
    /\ attempts' # attempts /\ idx' = idx /\ pc' # "cycle_start" =>
          /\ pc = "call"
          /\ attempts' = [attempts EXCEPT ![CurrentModel] = @ + 1]
          /\ CurrentModel \notin permanently_failed

\* C20: within a cycle the position in the model list only moves forward and
\* only the model at the current position, eligible at that moment, is
\* called, so every model is called at most once per cycle, in list order;
\* a model that is still eligible has been called in every cycle so far, in
\* particular a model whose attempts were classified Skip.
C20_EligibleInOrderEachCycle == [](C20_State) /\ [][C20_Step]_vars

\* C20 witness: in the second cycle the engine calls, for the second time,
\* the second model of the list, which raised Skip in the first cycle.
C20_Witness ==
    /\ pc = "call"
    /\ cycle = 2
    /\ mi = 2
    /\ <<CurrentModel, "Skip">> \in seen
    /\ attempts[CurrentModel] = 1

\* the credentials each source of resolve_provider_keys yields, blank
\* strings not being credentials
ListSource == StripAndFilter(raw_api_keys)
SingleSource == IF Truthy(Strip(raw_api_key)) THEN <<Strip(raw_api_key)>> ELSE <<>>
EnvSource == IF provider # "ollama" /\ Truthy(envKey) THEN <<envKey>> ELSE <<>>
EndpointSource == IF provider = "ollama" THEN <<OllamaBaseUrl>> ELSE <<>>

FirstYield ==
    IF ListSource # <<>> THEN ListSource
    ELSE IF SingleSource # <<>> THEN SingleSource
    ELSE IF EnvSource # <<>> THEN EnvSource
    ELSE EndpointSource

\* C16 (as claimed): resolve_provider_keys returns the credentials of the
\* first of the four sources that yields any, and raises the missing-key
\* error only when none of them yields a credential.
C16_FirstYieldingSource ==
    pc # "service"
    => IF FirstYield # <<>>
       THEN pc = "generate" /\ api_keys = Dedup(FirstYield)
       ELSE pc = "done" /\ result.error = "MissingKey"

\* the model at the current position of call c
CallModel(c) == models[call_mi[c]]

C17_State ==
    \A c \in Calls :
        (call_pc[c] = "model_loop" /\ call_mi[c] <= Len(models)
            /\ CallModel(c) \notin call_perm[c])
        => ENABLED CallSmartWait(c)

C17_Step ==
    \A c \in Calls :
        /\ (call_pc[c] = "model_loop" /\ call_mi'[c] = call_mi[c] + 1)
           => CallModel(c) \in call_perm[c]
        /\ (call_pc[c] = "model_loop" /\ call_pc'[c] = "call")
           => /\ CallModel(c) \notin call_perm[c]
              /\ clock' > clock => CallModel(c) \in call_stamped[c]

\* C17: of two calls made through one provider object, in sequence or
\* interleaved, each skips a model only if the call itself has classified it
\* Permanent, sleeps in a smart wait only for a model the call itself has
\* time-stamped, and goes on to attempt every model it has not itself
\* classified Permanent.
C17_RetryStatePerCall == [](C17_State) /\ [][C17_Step]_vars

\* C17 witness: call 1 has classified model "a" Permanent and is still
\* running; call 2 is calling "a" in its first cycle without having waited.
C17_Witness ==
    /\ call_perm[1] = {"a"}
    /\ call_pc[1] \in {"model_loop", "call"}
    /\ call_pc[2] = "call"
    /\ call_cycle[2] = 1
    /\ CallModel(2) = "a"
    /\ frame_last[FrameOf(2)]["a"] = clock
    /\ frame_last[FrameOf(1)]["a"] < clock

\* the message matches one of the adapter's patterns for an unknown model, a
\* quota of zero or a failed credential (for Ollama: a failed endpoint)
Recognised(adapter, msg) ==
    CASE adapter = "gemini" ->
            \/ InMsg(msg, "NOT_FOUND") \/ InMsg(msg, "404")
            \/ InMsg(msg, "limit: 0") \/ InMsg(msg, "limit:0")
            \/ (InMsg(msg, "INVALID_ARGUMENT") /\ InMsg(msg, "API key not valid"))
      [] adapter = "openai" ->
            \/ InMsg(msg, "404") \/ InLow(msg, "model_not_found")
            \/ InLow(msg, "insufficient_quota")
            \/ InLow(msg, "invalid_api_key") \/ InLow(msg, "authentication")
      [] adapter = "ollama" ->
            \/ InLow(msg, "connection") \/ InLow(msg, "connect")
            \/ InMsg(msg, "404") \/ (InLow(msg, "model") /\ InLow(msg, "not found"))
      [] adapter = "anthropic" ->
            \/ InLow(msg, "not_found") \/ InMsg(msg, "404")
            \/ InLow(msg, "authentication") \/ (InLow(msg, "invalid") /\ InLow(msg, "api"))
      [] adapter = "litellm" ->
            \/ InLow(msg, "not_found") \/ InMsg(msg, "404") \/ InLow(msg, "does not exist")
            \/ InLow(msg, "authentication") \/ InLow(msg, "invalid_api_key")
            \/ InMsg(msg, "401")

\* C18: an error whose message matches none of the adapter's unknown-model,
\* quota or credential patterns is classified Skip by every adapter, and the
\* engine handles it, like an exception that is no sentinel at all, by going
\* on to the next model: the run of the credential is not ended.
C18_UnrecognisedIsSkip ==
    /\ (cls_pc \in {"classified", "handled"} /\ cls_kind # "Unexpected"
          /\ ~Recognised(cls_adapter, cls_msg))
       => cls_kind = "Skip"
    /\ (cls_pc = "handled"
          /\ (cls_kind = "Unexpected" \/ ~Recognised(cls_adapter, cls_msg)))
       => cls_disp = "skip"

\* C18 witness: the Ollama adapter has classified a message made of an
\* unknown text and a timeout, and the engine has skipped the model.
C18_Witness ==
    /\ cls_pc = "handled"
    /\ cls_adapter = "ollama"
    /\ cls_msg = {"boom", "timeout"}
    /\ cls_kind = "Skip"
    /\ cls_disp = "skip"

\* the backends whose errors reach an adapter
Backends(adapter) ==
    IF adapter = "litellm" THEN {"openai", "anthropic"}
    ELSE IF adapter = "gemini" THEN {"google"}
    ELSE {adapter}

\* the messages by which a backend reports a failure of the given sort, as
\* its own adapter and that adapter's tests know them
BackendMsgs(backend, sort) ==
    CASE sort = "quota_zero" ->
            (CASE backend = "google" -> {{"RESOURCE_EXHAUSTED", "limit: 0"}, {"429", "limit: 0"}}
               [] backend = "openai" -> {{"429", "insufficient_quota"}}
               [] OTHER -> {})
      [] sort = "unknown_model" ->
            (CASE backend = "google" -> {{"NOT_FOUND", "404"}}
               [] backend = "openai" -> {{"404", "model_not_found"}}
               [] backend = "ollama" -> {{"404"}, {"model", "not found"}}
               [] OTHER -> {{"404"}})
      [] sort = "transient" ->
            (CASE backend = "google" -> {{"RESOURCE_EXHAUSTED", "429"},
                                         {"model output must contain"}, {"timeout"}}
               [] backend = "openai" -> {{"429", "rate_limit"}, {"content_filter"}, {"timeout"}}
               [] backend = "anthropic" -> {{"429", "rate_limit"}, {"overloaded"}, {"timeout"}}
               [] OTHER -> {{"429"}, {"timeout"}})
      [] sort = "credential" ->
            (CASE backend = "google" -> {{"INVALID_ARGUMENT", "API key not valid"}}
               [] backend = "openai" -> {{"401", "invalid_api_key"}}
               [] backend = "anthropic" -> {{"401", "authentication"}}
               [] OTHER -> {})

Reports(adapter, msg, sort) == \E b \in Backends(adapter) : msg \in BackendMsgs(b, sort)

\* C19 (as claimed): every adapter's classifier raises one of the three
\* sentinels: Permanent for an unknown model or a quota of zero, Skip for a
\* rate limit, a content block or a timeout, Abort for an invalid credential.
C19_ClassifierMap ==
    (cls_pc \in {"classified", "handled"} /\ cls_kind # "Unexpected")
    => /\ cls_kind \in {"Permanent", "Skip", "Abort"}
       /\ Reports(cls_adapter, cls_msg, "quota_zero") => cls_kind = "Permanent"
       /\ Reports(cls_adapter, cls_msg, "unknown_model") => cls_kind = "Permanent"
       /\ Reports(cls_adapter, cls_msg, "transient") => cls_kind = "Skip"
       /\ Reports(cls_adapter, cls_msg, "credential") => cls_kind = "Abort"

C21_State ==
    /\ pc = "waiting" =>
          /\ model_last_used[CurrentModel] # 0
          /\ attempts[CurrentModel] >= 1
          /\ now - waited - model_last_used[CurrentModel] < MinDelay
          /\ wait = MinDelay - (now - waited - model_last_used[CurrentModel])
    /\ \A m \in ModelSet : model_last_used[m] = 0 <=> (attempts[m] = 0 /\ ~(pc = "call" /\ CurrentModel = m))

C21_Step ==
    (pc # "call" /\ pc' = "call" /\ idx' = idx)
    => /\ model_last_used' = [model_last_used EXCEPT ![CurrentModel] = now]
       /\ now' = now
       /\ model_last_used[CurrentModel] # 0
             => now - model_last_used[CurrentModel] >= MinDelay
       /\ model_last_used[CurrentModel] = 0 => pc = "model_loop"

\* C21: within one run, a model is time-stamped when its call starts; the
\* call of a model that has a timestamp starts at least MinDelay after that
\* timestamp; a model without timestamp is called without any wait; a wait
\* is entered only for the model at the current position, on account of its
\* own timestamp, and lasts the remainder of MinDelay.
C21_MinDelayBetweenSameModel == [](C21_State) /\ [][C21_Step]_vars

\* C21 witness: the smart wait for a model called once before is over and
\* its call is about to start exactly MinDelay after its timestamp.
C21_Witness ==
    /\ pc = "waiting"
    /\ wait > 0
    /\ waited = wait
    /\ attempts[CurrentModel] = 1
    /\ now = model_last_used[CurrentModel] + MinDelay

\* C26 (as claimed): when the token is set at the moment generate() is
\* entered, with at least one credential, the call ends with the Cancelled
\* error and the adapter is never called.
C26_CancelledFromStart ==
    (cancelAtEntry /\ keys # <<>> /\ pc = "done")
    => /\ result.status = "error"
       /\ result.error = "Cancelled"
       /\ TotalCalls = 0

\* C27 (as claimed): while the token is set no adapter call is started.
C27_NoCallOnceCancelled ==
    [][cancelled => ~(pc # "call" /\ pc' = "call")]_vars

C27_State == cancelObserved => pc \in {"cycle_start", "done"}

C27_Step ==
    (cancelled /\ pc # "call" /\ pc' = "call")
    => /\ ~cancelObserved
       /\ \/ pc = "model_loop" /\ ~NeedsWait(model_last_used[CurrentModel], now)
          \/ pc = "waiting" /\ cancelInSleep /\ waited >= wait

\* C27: the probe is consulted at the top of every cycle and before every
\* sleep of a smart wait, nowhere else. Once it has been observed set, no
\* adapter call is started. A call started while the token is set, before it
\* is observed, is the call of a model that needs no smart wait, or the call
\* that follows the last sleep of a smart wait during which the token was set.
C27_NoCallOnceObserved == [](C27_State) /\ [][C27_Step]_vars

\* C27 witness: in the first cycle the second model is being called although
\* the token was set before its call started.
C27_Witness ==
    /\ pc = "call"
    /\ cancelled
    /\ ~cancelObserved
    /\ cycle = 1
    /\ mi = 2
    /\ attempts[models[1]] = 1
    /\ model_last_used[CurrentModel] = now

\* the list the call was given to resolve: the explicit list, else the single
\* credential, else what the environment or the endpoint provides
GivenKeys ==
    IF raw_api_keys # <<>> THEN raw_api_keys
    ELSE IF Truthy(raw_api_key) THEN <<raw_api_key>>
    ELSE IF provider = "ollama" THEN <<OllamaBaseUrl>>
    ELSE IF Truthy(envKey) THEN <<envKey>>
    ELSE <<>>

\* C29 (as claimed): a list returned by resolve_provider_keys is non-empty,
\* has no duplicate, no blank entry and no untrimmed entry, and lists the
\* trimmed entries of the input in the order of their first occurrence.
C29_ReturnedListClean ==
    (path = "service" /\ pc = "generate")
    => /\ api_keys # <<>>
       /\ NoDuplicates(api_keys)
       /\ \A i \in 1..Len(api_keys) :
             /\ ~Blank(api_keys[i])
             /\ Strip(api_keys[i]) = api_keys[i]
             /\ \E j \in 1..Len(GivenKeys) : Strip(GivenKeys[j]) = api_keys[i]
       /\ \A i, j \in 1..Len(api_keys) :
             i < j => FirstIndex(Trimmed(GivenKeys), api_keys[i])
                         < FirstIndex(Trimmed(GivenKeys), api_keys[j])

\* the five provider kinds of the configuration surface and their adapters
SupportedKinds == {"gemini", "openai", "ollama", "anthropic", "litellm"}
AdapterOf(kind) ==
    CASE kind = "gemini" -> "GeminiProvider"
      [] kind = "openai" -> "OpenAIProvider"
      [] kind = "ollama" -> "OllamaProvider"
      [] kind = "anthropic" -> "AnthropicProvider"
      [] kind = "litellm" -> "LiteLLMProvider"

\* what detect_provider() can return over every accepted configuration; the
\* validator of ollama_base_url keeps that setting non-empty
DetectableNames ==
    {detect_provider(dp, TRUE, g, a, o) :
        dp \in AllowedProviders, g \in BOOLEAN, a \in BOOLEAN, o \in BOOLEAN}

\* C22 (as claimed): get_provider() resolves each of the five supported
\* provider kinds, and every name detect_provider() can return, to its
\* adapter; none of them ends in the 'Unknown provider' error.
C22_SupportedKindsResolve ==
    (reg_pc = "got" /\ reg_name.base \in SupportedKinds \cup DetectableNames
                    /\ reg_name = Plain(reg_name.base))
    => /\ reg_out.status = "ok"
       /\ reg_given = {} => reg_out.cls = AdapterOf(reg_name.base)

Range(f) == {f[i] : i \in DOMAIN f}

\* C23 (as claimed): a name given to register_provider is afterwards listed
\* by list_providers() in lower case and resolved by get_provider();
\* get_provider ignores case and raises 'Unknown provider' for a name that
\* was never registered.
C23_State ==
    /\ (reg_pc = "got" /\ reg_name \in reg_given) => reg_out.status = "ok"
    /\ reg_pc = "listed" => \A n \in reg_given : LowerName(n) \in Range(reg_list)
    /\ reg_pc = "got" => reg_out = get_provider(_PROVIDERS, LowerName(reg_name))
    /\ (reg_pc = "got" /\ reg_name.base = "nonexistent")
          => reg_out.error = "UnknownProvider"

\* C23 (as claimed): register_provider changes only the entry of the
\* lower-cased name; every other entry keeps its class.
C23_Step ==
    reg_pc' = "registered"
    => /\ DOMAIN _PROVIDERS' = DOMAIN _PROVIDERS \cup {LowerName(reg_name')}
       /\ _PROVIDERS'[LowerName(reg_name')] = reg_cls'
       /\ \A k \in DOMAIN _PROVIDERS :
             k # LowerName(reg_name') => _PROVIDERS'[k] = _PROVIDERS[k]

\* C23: the whole claim, frame and lookups
C23_RegisterIsLocalAndResolvable == [](C23_State) /\ [][C23_Step]_vars

\* confirm_cancel has just run in session r
Confirmed(r) == last_confirm' = r /\ (last_confirm # r \/ token_set' # token_set
                                      \/ cancel_requested' # cancel_requested)

\* C24 (as claimed): with two requests in flight, confirming cancel in one
\* session leaves the token of the other request's running worker as it was
\* and sets the token of its own request whenever that request's worker is
\* still running.
C24_Step ==
    \A r \in Requests :
        Confirmed(r)
        => /\ \A o \in Requests \ {r} :
                 worker_running[o] => token_set'[o] = token_set[o]
           /\ worker_running[r] => token_set'[r]

C24_ConfirmSetsOwnTokenOnly == [][C24_Step]_vars

\* a checkpoint records step 1 as completed when it holds the dict the
\* Librarian step went on with, and step 2 when it holds the Analyst's text
Done1(ckpt) == HasGet(ckpt.librarian_data)
Done2(ckpt) == ckpt.analyst_output # Absent
DoneSteps(ckpt) == {k \in {1, 2} : (k = 1 /\ Done1(ckpt)) \/ (k = 2 /\ Done2(ckpt))}
CheckpointKeys == {"librarian_data", "model1_name", "analyst_output", "model2_name"}
InReview == rv_pc \in {"step1", "step2", "step3"}

\* C25 (as claimed): the three steps run in order; the partial_data of a
\* PartialCompletionError holds the result of every step completed before
\* the failing one; a resumed call makes no provider call for a step its
\* checkpoint records as completed, hence 3 minus that many calls when it
\* succeeds.
C25_ResumeSkipsCompletedSteps ==
    /\ rv_pc = "step1" => rv_called = {}
    /\ rv_pc = "step2" => rv_called \subseteq {1}
    /\ rv_pc = "step3" => rv_called \subseteq {1, 2}
    /\ rv_pc = "failed"
          => /\ (Done1(rv_given) \/ (1 \in rv_called /\ rv_step >= 2)) => Done1(partial_data)
             /\ (Done2(rv_given) \/ (2 \in rv_called /\ rv_step = 3)) => Done2(partial_data)
    /\ rv_resumed => rv_called \cap DoneSteps(rv_given) = {}
    /\ (rv_resumed /\ rv_pc = "ok") => rv_calls = 3 - Cardinality(DoneSteps(rv_given))

\* C30 (as claimed): the caller's resume_state is left as it was passed, the
\* partial_data of a failed resumed call holds every entry of that
\* resume_state with its value unchanged, and no step the resume_state
\* records as completed is missing from it.
C30_CheckpointOnlyGrows ==
    /\ (rv_resumed /\ InReview) => resume_data = rv_given
    /\ (rv_resumed /\ rv_pc = "failed")
          => /\ \A k \in CheckpointKeys :
                   rv_given[k] # Absent => partial_data[k] = rv_given[k]
             /\ DoneSteps(rv_given) \subseteq DoneSteps(partial_data)

\* C28 (as claimed): in the period since the last shutdown_executor() call
\* at most one pool is constructed and every get_executor() call made in the
\* period returns the same object, a pool that is not shut down.
C28_OnePoolPerPeriod ==
    /\ Cardinality(ex_made) <= 1
    /\ Cardinality(ex_got) <= 1
    /\ (\A t \in Threads : ex_pc[t] # "clear") => ex_got \cap pool_shutdown = {}

====
